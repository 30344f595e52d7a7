----------------------------- MODULE MCDelegation -----------------------------
(* Small instances, for TLC, of what the AI server is asked for: portfolio  *)
(* generations, corrections and PDF extractions.  They share no state, so   *)
(* each runs alone; the others stay as they were initially.                 *)
EXTENDS PortfolioGeneration, Correction, Extraction, TLC

CONSTANT MaxMishaps    \* bound on what goes wrong in one behaviour

VARIABLE part

DelegationTypeOK == GenerationTypeOK /\ CorrectionTypeOK /\ ExtractionTypeOK

DelegationInit ==
    /\ part \in {"generation", "correction", "extraction"}
    /\ GenerationInit /\ CorrectionInit /\ ExtractionInit

DelegationNext ==
    /\ UNCHANGED part
    /\ \/ /\ part = "generation"
          /\ GenerationNext
          /\ Cardinality(mishaps') <= MaxMishaps
          /\ UNCHANGED <<correctionVars, extractionVars>>
       \/ /\ part = "correction"
          /\ CorrectionNext
          /\ Cardinality(accidents') <= MaxMishaps
          /\ UNCHANGED <<vars, extractionVars>>
       \/ /\ part = "extraction"
          /\ ExtractionNext
          /\ Cardinality(faults') <= MaxMishaps
          /\ UNCHANGED <<vars, correctionVars>>

DelegationSpec == DelegationInit /\ [][DelegationNext]_<<part, vars, correctionVars, extractionVars>>

FairDelegationSpec ==
    /\ DelegationSpec
    /\ \/ part = "generation" /\ GenerationFairness
       \/ part = "correction" /\ CorrectionFairness
       \/ part = "extraction" /\ ExtractionFairness

\* The safety run does not tell generators, uploads, portfolios or blocks apart.
DelegationSymmetry ==
    Permutations(Generators) \cup Permutations(Portfolios)
        \cup Permutations(Generations) \cup Permutations(CorrectedPortfolios)
        \cup Permutations(Uploads) \cup Permutations(Blocks)

\* Nothing the AI server was asked for stays GENERATE, DOING_RAG or GENERATING for ever
\* when no server dies and nothing is lost: a refused delegation is turned into a
\* failure, an answer is taken whatever edits and deletions it meets, and none comes too
\* early to be taken later.
AiWorkEnds ==
    (GenerationRuns \/ CorrectionRuns \/ ExtractionRuns)
        ~> ~(GenerationRuns \/ CorrectionRuns \/ ExtractionRuns)
=============================================================================
