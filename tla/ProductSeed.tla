------------------------------ MODULE ProductSeed ------------------------------
(***************************************************************************)
(* The catalogue of ticket products and the seed that keeps it in the      *)
(* local and dev profiles: each server that starts reads the table,        *)
(* compares it with the products the code expects, and saves what is       *)
(* missing or differs, before it listens.  The table has no unique key.    *)
(*                                                                         *)
(* A kind is a type with a quantity.  A row is current if its price, its   *)
(* order and its flag are the expected ones, else stale or not active.     *)
(***************************************************************************)
EXTENDS Naturals, FiniteSets

CONSTANTS
    ProductKinds,   \* kinds of products
    ExpectedKinds,  \* the kinds the seed expects
    ProductIds,     \* ids of the table
    Servers

ASSUME SeedConstants ==
    ExpectedKinds \subseteq ProductKinds /\ "none" \notin ProductKinds /\ IsFiniteSet(ProductIds)

VARIABLES
    profile,        \* APP_PROFILE of the deployment; local is like dev
    product,        \* the committed rows
    freeIds,        \* ids that were never given out
    server,         \* a server that starts, and what it will save
    seeded,         \* servers whose seed was saved since the table was last wiped
    raced           \* a seed has read the table while another was about to save

seedVars == <<profile, product, freeIds, server, seeded, raced>>

RowStates == {"current", "stale", "inactive"}
Rows == [kind : ProductKinds, state : RowStates]
NoRow == [kind |-> "none", state |-> "none"]
Down == [pc |-> "down", create |-> {}, update |-> {}]

SeedTypeOK ==
    /\ profile \in {"dev", "prod"}
    /\ product \in [ProductIds -> Rows \cup {NoRow}]
    /\ freeIds \subseteq ProductIds
    /\ server \in [Servers -> [pc : {"down", "init", "save", "listens"},
                               create : SUBSET ProductKinds,
                               update : SUBSET (ProductIds \X ProductKinds)]]
    /\ seeded \subseteq Servers
    /\ raced \in BOOLEAN

\* The rows the catalogue should have, each at its own price and order.
GetExpectedProducts == {[kind |-> k, state |-> "current"] : k \in ExpectedKinds}

Existing(table) == {i \in ProductIds : table[i] # NoRow}
OfKind(k) == {i \in ProductIds : product[i].kind = k}

\* At most one row of a kind, left by earlier releases or edited by hand.
SeedInit ==
    /\ profile \in {"dev", "prod"}
    /\ \E kinds \in SUBSET ProductKinds, states \in [ProductKinds -> RowStates],
          at \in [ProductKinds -> ProductIds] :
        /\ \A j, k \in kinds : at[j] = at[k] => j = k
        /\ product = [i \in ProductIds |->
                        IF \E k \in kinds : at[k] = i
                        THEN LET k == CHOOSE k \in kinds : at[k] = i
                             IN [kind |-> k, state |-> states[k]]
                        ELSE NoRow]
    /\ freeIds = {i \in ProductIds : product[i] = NoRow}
    /\ server = [s \in Servers |-> Down]
    /\ seeded = {}
    /\ raced = FALSE

-------------------------------------------------------------------------------
\* The module is initialised; the other profiles return at once.
OnModuleInit(s) ==
    /\ server[s].pc = "down"
    /\ server' = [server EXCEPT ![s].pc = IF profile = "prod" THEN "listens" ELSE "init"]
    /\ UNCHANGED <<profile, product, freeIds, seeded, raced>>

\* Mutant: a row that is not active is not found.
MissingActive == {k \in ExpectedKinds : \A i \in OfKind(k) : product[i].state = "inactive"}

\* Kinds without a row.
Missing == {k \in ExpectedKinds : OfKind(k) = {}}

\* The row a kind is compared with, whichever of them the query returns first.
FoundRows == {rows \in SUBSET (ProductIds \X ExpectedKinds) :
                /\ \A row \in rows : row[1] \in OfKind(row[2])
                /\ \A k \in ExpectedKinds \ Missing : Cardinality({row \in rows : row[2] = k}) = 1}

\* reconcile: what is missing is created, what differs is updated.
Reconcile(s) ==
    /\ server[s].pc = "init"
    /\ \E rows \in FoundRows :
        server' = [server EXCEPT ![s] =
            [pc |-> "save", create |-> Missing,
             update |-> {row \in rows : product[row[1]] \notin GetExpectedProducts}]]
    /\ raced' = (raced \/ \E r \in Servers : server[r].pc = "save")
    /\ UNCHANGED <<profile, product, freeIds, seeded>>

\* saveAll is one transaction; a row that is gone by then is inserted again.
SaveAll(s) ==
    /\ server[s].pc = "save"
    /\ \E at \in [server[s].create -> freeIds] :
        /\ \A j, k \in server[s].create : at[j] = at[k] => j = k
        /\ product' = [i \in ProductIds |->
              IF \E k \in server[s].create : at[k] = i
              THEN [kind |-> CHOOSE k \in server[s].create : at[k] = i, state |-> "current"]
              ELSE IF \E row \in server[s].update : row[1] = i
              THEN [kind |-> (CHOOSE row \in server[s].update : row[1] = i)[2], state |-> "current"]
              ELSE product[i]]
        /\ freeIds' = freeIds \ {at[k] : k \in server[s].create}
    /\ server' = [server EXCEPT ![s] = [Down EXCEPT !.pc = "listens"]]
    /\ seeded' = seeded \cup {s}
    /\ UNCHANGED <<profile, raced>>

\* The seed fails, and the server starts all the same.
SeedFails(s) ==
    /\ server[s].pc \in {"init", "save"}
    /\ server' = [server EXCEPT ![s] = [Down EXCEPT !.pc = "listens"]]
    /\ UNCHANGED <<profile, product, freeIds, seeded, raced>>

\* A server is stopped or dies, at any time.
ServerStops(s) ==
    /\ server[s].pc # "down"
    /\ server' = [server EXCEPT ![s] = Down]
    /\ UNCHANGED <<profile, product, freeIds, seeded, raced>>

\* The dev database is wiped; the documentation says to restart the server then.
WipeDatabase ==
    /\ profile # "prod"
    /\ product' = [i \in ProductIds |-> NoRow]
    /\ seeded' = {}
    /\ raced' = \E r \in Servers : server[r].pc = "save"
    /\ UNCHANGED <<profile, freeIds, server>>

SeedNext ==
    \/ \E s \in Servers :
        OnModuleInit(s) \/ Reconcile(s) \/ SaveAll(s) \/ SeedFails(s) \/ ServerStops(s)
    \/ WipeDatabase

SeedSpec == SeedInit /\ [][SeedNext]_seedVars

-------------------------------------------------------------------------------
\* findActiveProducts, what GET /ticket-products shows.
FindActiveProducts == {i \in Existing(product) : product[i].state # "inactive"}

\* Once a seed was saved the customers are shown each expected kind once and at its
\* price, whatever the table held, however servers die and start again, and though a
\* seed that fails stops no server.  Seeds that overlap are set aside: each creates what
\* it has found missing, and nothing in the table refuses the second row.
CatalogueIsWhole ==
    seeded # {} /\ ~raced =>
        \A k \in ExpectedKinds : \E i \in FindActiveProducts :
            OfKind(k) = {i} /\ product[i] \in GetExpectedProducts
=============================================================================
