------------------------- MODULE SuiteTransactions -------------------------
(***************************************************************************)
(* What the suite module promises its callers: every branch has a live     *)
(* suite, changed only by transactions.  A transaction starts from the     *)
(* live suite as it is now, is edited in private, and either replaces the  *)
(* live suite as a whole or leaves no trace; a branch runs one at a time.  *)
(* A branch with no suite yet starts from nothing or from a suite the main *)
(* branch has published.  No lost update is the point: the suite a         *)
(* transaction replaces is always the one it started from.                 *)
(***************************************************************************)
CONSTANTS Branch, MainBranch, Test, Plan, NoPlan

VARIABLES
    live,       \* the branches that have a suite
    suite,      \* the live suite of each branch (empty when it has none)
    open,       \* the branches with a transaction in progress
    draft,      \* the private copy of that transaction (empty when there is none)
    published   \* every suite the main branch has made live

txVars == <<live, suite, open, draft, published>>

Suites == [Test -> Plan \cup {NoPlan}]
Empty  == [t \in Test |-> NoPlan]

TxInit ==
    /\ live = {} /\ suite = [b \in Branch |-> Empty]
    /\ open = {} /\ draft = [b \in Branch |-> Empty]
    /\ published = {}

Begin(b) ==
    /\ b \notin open
    /\ open' = open \cup {b}
    /\ \E start \in IF b \in live THEN {suite[b]} ELSE {Empty} \cup published :
          draft' = [draft EXCEPT ![b] = start]
    /\ UNCHANGED <<live, suite, published>>

Write(b, t, p) ==
    /\ b \in open
    /\ draft' = [draft EXCEPT ![b][t] = p]
    /\ UNCHANGED <<live, suite, open, published>>

Commit(b) ==
    /\ b \in open
    /\ live' = live \cup {b}
    /\ suite' = [suite EXCEPT ![b] = draft[b]]
    /\ open' = open \ {b}
    /\ draft' = [draft EXCEPT ![b] = Empty]
    /\ published' = IF b = MainBranch THEN published \cup {draft[b]} ELSE published

Abort(b) ==
    /\ b \in open
    /\ open' = open \ {b}
    /\ draft' = [draft EXCEPT ![b] = Empty]
    /\ UNCHANGED <<live, suite, published>>

TxNext ==
    \E b \in Branch :
        \/ Begin(b) \/ Commit(b) \/ Abort(b)
        \/ \E t \in Test, p \in Plan \cup {NoPlan} : Write(b, t, p)

TxSpec == TxInit /\ [][TxNext]_txVars
=============================================================================
