------------------------------ MODULE Requests ------------------------------
(***************************************************************************)
(* What a client of the monitoring interface is promised: a key that waits *)
(* for a conversion is answered, with "added" or with "failed", and it     *)
(* does not stop waiting without an answer unless the program ends.  A     *)
(* request may be answered at once; "associated" alone promises nothing.   *)
(***************************************************************************)
CONSTANT Keys

VARIABLES
    open,   \* the keys that wait for a conversion
    last    \* the last signal for each key

vars == <<open, last>>

Answers == {"added", "failed"}
Signals == Answers \cup {"associated"}

Init == open = {} /\ last = [k \in Keys |-> "none"]

Associate(k) ==
    /\ open' = open \cup {k}
    /\ last' = [last EXCEPT ![k] = "associated"]

AnswerAtOnce(k) ==
    /\ last' \in {[last EXCEPT ![k] = signal] : signal \in Signals}
    /\ UNCHANGED open

(* The key goes on waiting if another request has been made for it.        *)
Resolve(k) ==
    /\ k \in open
    /\ open' \in {open, open \ {k}}
    /\ last' \in {[last EXCEPT ![k] = answer] : answer \in Answers}

(* The program ends, and the next one knows nothing of requests.           *)
Forget ==
    /\ open' = {}
    /\ last' = [k \in Keys |-> "none"]

Next == (\E k \in Keys : Associate(k) \/ AnswerAtOnce(k) \/ Resolve(k)) \/ Forget

Safety == Init /\ [][Next]_vars

Spec == Safety /\ \A k \in Keys : WF_vars(Resolve(k))
=============================================================================
