--------------------------- MODULE ManagedObject ---------------------------
(***************************************************************************)
(* What a level-triggered reconciler promises about one object of the      *)
(* cluster, whatever the object is.  Somebody asks for something, the      *)
(* operator hears of it sooner or later, works on what it last heard, and  *)
(* sees the versions of the object one after another, each one later than  *)
(* it came about.  Each time it acts it leaves the object alone, or brings *)
(* it one step nearer to the request it works on, going by what it sees.   *)
(* It never touches an object that it sees to be as requested, never makes *)
(* one that is not wanted, overwrites nothing it has not seen, and deletes *)
(* one that is wanted only if what it sees cannot be mended.               *)
(***************************************************************************)
EXTENDS Naturals, Sequences

CONSTANTS
    Requests,         \* what can be asked for
    None,             \* the operator is not at work
    States,           \* of the object
    Nearer(_, _, _)   \* the states one step nearer to a request, for an operator
                      \* that sees one state while the object is in another

VARIABLES asked, heard, working,
          history     \* states of the object, from the one seen to the present one

vars == <<asked, heard, working, history>>

object == history[Len(history)]
seen   == history[1]

Becomes(s) == history' = IF s = object THEN history ELSE Append(history, s)

Init ==
    /\ asked \in Requests
    /\ heard = asked
    /\ working = None
    /\ history = <<object>> /\ object \in States

\* The user changes the request.
Ask ==
    /\ asked' \in Requests
    /\ UNCHANGED <<heard, working, history>>

\* The news arrives; it may make the operator move the object at once.
Hear ==
    /\ heard' = asked
    /\ \E s \in {object} \cup Nearer(asked, seen, object) : Becomes(s)
    /\ UNCHANGED <<asked, working>>

\* The operator sees the next state of the object.
Look ==
    /\ Len(history) > 1
    /\ history' = Tail(history)
    /\ UNCHANGED <<asked, heard, working>>

Start ==
    /\ working = None
    /\ working' = heard
    /\ UNCHANGED <<asked, heard, history>>

\* Work ends, with or without success.
Act ==
    /\ working # None
    /\ working' = None
    /\ \E s \in {object} \cup Nearer(working, seen, object) : Becomes(s)
    /\ UNCHANGED <<asked, heard>>

\* A new process hears of everything at once.
Crash ==
    /\ working' = None
    /\ heard' = asked
    /\ history' = <<object>>
    /\ UNCHANGED asked

\* Somebody else changes the object.
Disturb ==
    /\ object' \in States /\ Becomes(object')
    /\ UNCHANGED <<asked, heard, working>>

Next == Ask \/ Hear \/ Look \/ Start \/ Act \/ Crash \/ Disturb

Spec == Init /\ [][Next]_vars
=============================================================================
