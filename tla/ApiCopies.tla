------------------------------- MODULE ApiCopies -------------------------------
(***************************************************************************)
(* What a cache of the API's counts promises to whoever reads through it,  *)
(* without locks, stores and maps: which copies may be served, where they  *)
(* come from, how old they get, and what is left of them after a drop.     *)
(***************************************************************************)
EXTENDS Integers, Sequences

CONSTANTS
    Key,      \* what the API counts
    Bound,    \* the age up to which copies are told apart
    Bounded   \* no copy is older than that

VARIABLES
    api,     \* every count the API's counter ever had, the last one current
    served,  \* the copies a read may answer with
    flight,  \* the copies that calls under way have in their hands
    floor    \* the version of the API's counter at the last reported drop

vars == <<api, served, flight, floor>>

Version(k) == Len(api[k])

\* A copy says which version of the counter it is of, and how long ago that
\* was asked for.
Current(k) == [value |-> api[k][Version(k)], seen |-> Version(k), age |-> 0]

Init ==
    /\ api = [k \in Key |-> <<0>>]
    /\ served = [k \in Key |-> {}]
    /\ flight = [k \in Key |-> {}]
    /\ floor = [k \in Key |-> 0]

\* The API's counter takes a next value.
Change(k) ==
    /\ Len(api'[k]) = Version(k) + 1
    /\ api' = [api EXCEPT ![k] = Append(@, api'[k][Version(k) + 1])]
    /\ UNCHANGED <<served, flight, floor>>

\* A call learns a count from the API: the current one, of that very key.
Learn(k) ==
    /\ flight' = [flight EXCEPT ![k] = @ \cup {Current(k)}]
    /\ UNCHANGED <<api, served, floor>>

\* A call takes up a copy that could be served.
Lift(k) ==
    /\ \E copy \in served[k] : flight' = [flight EXCEPT ![k] = @ \cup {copy}]
    /\ UNCHANGED <<api, served, floor>>

\* A call leaves the copy it holds for others, in place of what was there.
Land(k) ==
    /\ \E copy \in flight[k] :
          \E kept \in SUBSET served[k] : served' = [served EXCEPT ![k] = kept \cup {copy}]
    /\ \E kept \in SUBSET flight[k] : flight' = [flight EXCEPT ![k] = kept]
    /\ UNCHANGED <<api, floor>>

\* A drop that reports success leaves nothing to serve; what calls under way
\* have in their hands is out of its reach.
Drop(keys) ==
    /\ served' = [k \in Key |-> IF k \in keys THEN {} ELSE served[k]]
    /\ floor' = [k \in Key |-> IF k \in keys THEN Version(k) ELSE floor[k]]
    /\ \A k \in Key : flight'[k] \subseteq flight[k]
    /\ UNCHANGED api

\* Copies may go at any time: lifetimes end, calls return, memory is lost.
Forget ==
    /\ \A k \in Key : served'[k] \subseteq served[k] /\ flight'[k] \subseteq flight[k]
    /\ UNCHANGED <<api, floor>>

\* Time passes: every copy that stays is older.
Aged(copies) ==
    {[copy EXCEPT !.age = IF @ < Bound THEN @ + 1 ELSE @] :
        copy \in {c \in copies : Bounded => c.age < Bound}}

Age ==
    /\ \A k \in Key : served'[k] \subseteq Aged(served[k])
    /\ \A k \in Key : flight'[k] \subseteq Aged(flight[k])
    /\ UNCHANGED <<api, floor>>

Next ==
    \/ \E k \in Key : Change(k) \/ Learn(k) \/ Lift(k) \/ Land(k)
    \/ \E keys \in SUBSET Key : Drop(keys)
    \/ Forget \/ Age

Spec == Init /\ [][Next]_vars
================================================================================
