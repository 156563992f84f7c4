------------------------ MODULE AncestorResolution ------------------------
(***************************************************************************)
(* What resolving ancestors promises.  A transaction asks for the          *)
(* ancestors of its seed sets in a membership graph that others change     *)
(* meanwhile.  It is answered once, with the ancestors of its seeds in one *)
(* graph that it could see at some instant between question and answer.    *)
(* A transaction that asks about a set created a moment ago is promised    *)
(* less: all that was above its seeds throughout, and nothing that never   *)
(* was.                                                                    *)
(***************************************************************************)
CONSTANTS Resolvers, Sets

VARIABLES
  view,      \* the graph each resolver can see now
  seeds,     \* the seed sets of a question, {} before it is asked
  seen,      \* the graphs a resolver could see since its question
  young,     \* the resolvers that ask about a set created a moment ago
  answer     \* the set of answers given: {} or a singleton

vars == <<view, seeds, seen, young, answer>>

Graphs == SUBSET (Sets \X Sets)

\* The members of D and everything above them, for edges <<set, member>>.
Up(D, S) ==
  {t \in Sets : \A C \in SUBSET Sets :
     (D \subseteq C /\ \A e \in S : e[2] \in C => e[1] \in C) => t \in C}

Asking(r) == seeds[r] # {} /\ answer[r] = {}

Init ==
  /\ view \in [Resolvers -> Graphs]
  /\ seeds = [r \in Resolvers |-> {}]
  /\ seen = [r \in Resolvers |-> {}]
  /\ young = {}
  /\ answer = [r \in Resolvers |-> {}]

Ask(r) ==
  /\ seeds[r] = {}
  /\ \E D \in (SUBSET Sets) \ {{}} : seeds' = [seeds EXCEPT ![r] = D]
  /\ seen' = [seen EXCEPT ![r] = {view[r]}]
  /\ UNCHANGED <<view, young, answer>>

Meet(r) ==
  /\ Asking(r)
  /\ young' = young \cup {r}
  /\ UNCHANGED <<view, seeds, seen, answer>>

Exact(r) == {Up(seeds[r], g) : g \in seen[r]}

Between(r) ==
  {A \in SUBSET Sets : /\ A \subseteq Up(seeds[r], UNION seen[r])
                       /\ \A s \in Sets \ A : \E X \in Exact(r) : s \notin X}

Answer(r) ==
  /\ Asking(r)
  /\ \E A \in IF r \in young THEN Between(r) ELSE Exact(r) :
       answer' = [answer EXCEPT ![r] = {A}]
  /\ young' = young \ {r}
  /\ UNCHANGED <<view, seeds, seen>>

\* A transaction that cannot be answered from what it has starts its question
\* over with the walk.
Fallback(r) ==
  /\ young' = young \ {r}
  /\ UNCHANGED <<view, seeds, seen, answer>>

\* A transaction ends, and with it the graph may change for all.
End(r) ==
  /\ view' \in [Resolvers -> Graphs]
  /\ seeds' = [seeds EXCEPT ![r] = {}]
  /\ seen' = [q \in Resolvers |->
       IF q = r THEN {}
       ELSE IF Asking(q) THEN seen[q] \cup {view'[q]} ELSE seen[q]]
  /\ young' = young \ {r}
  /\ answer' = [answer EXCEPT ![r] = {}]

\* A transaction changes the graph, for its own eyes so far.
Change(r) ==
  /\ ~ Asking(r)
  /\ \E g \in Graphs : view' = [view EXCEPT ![r] = g]
  /\ UNCHANGED <<seeds, seen, young, answer>>

Next ==
  \E r \in Resolvers :
    Ask(r) \/ Meet(r) \/ Answer(r) \/ Fallback(r) \/ Change(r) \/ End(r)

Spec == Init /\ [][Next]_vars
=============================================================================
