---------------------------- MODULE InboundOnce ----------------------------
(***************************************************************************)
(* What the router promises about a chat reply, whatever crashes, reloads  *)
(* and redeliveries happen: it is handed to the agent at most once, only   *)
(* while the machine owns it; it is given back only if it was never handed *)
(* over; and a verdict is written once, after the matching text was        *)
(* posted, and never changes.  ReplyContinuation implements this.          *)
(***************************************************************************)
EXTENDS ReplyNotices

CONSTANT Events     \* provider events, each one reply in a chat thread

VARIABLES
    phase,          \* phase[e]: "unowned", "owned" or a verdict
    ran,            \* ran[e]: how many times the reply has reached the agent
    told            \* told[e]: the texts posted under the reply

vars == <<phase, ran, told>>

Init == /\ phase = [e \in Events |-> "unowned"]
        /\ ran = [e \in Events |-> 0]
        /\ told = [e \in Events |-> {}]

Own(e) == /\ phase[e] = "unowned"
          /\ phase' = [phase EXCEPT ![e] = "owned"]
          /\ UNCHANGED <<ran, told>>

GiveBack(e) == /\ phase[e] = "owned"
               /\ ran[e] = 0
               /\ phase' = [phase EXCEPT ![e] = "unowned"]
               /\ UNCHANGED <<ran, told>>

\* The same step may post the text that ends an attempt and give the reply back:
\* a send that was reported failed and had nevertheless arrived.
GiveBackTelling(e, n) == /\ phase[e] = "owned"
                         /\ ran[e] = 0
                         /\ VerdictOf[n] = "failed_notified"
                         /\ phase' = [phase EXCEPT ![e] = "unowned"]
                         /\ told' = [told EXCEPT ![e] = @ \cup {n}]
                         /\ UNCHANGED ran

Run(e) == /\ phase[e] # "unowned"
          /\ ran[e] = 0
          /\ ran' = [ran EXCEPT ![e] = 1]
          /\ UNCHANGED <<phase, told>>

\* Recovery may post its notice late, for a reply that was given back meanwhile.
Tell(e, n) == /\ n = "result" => ran[e] = 1
              /\ told' = [told EXCEPT ![e] = @ \cup {n}]
              /\ UNCHANGED <<phase, ran>>

Close(e, n) == /\ phase[e] = "owned"
               /\ n \in told[e]
               /\ phase' = [phase EXCEPT ![e] = VerdictOf[n]]
               /\ UNCHANGED <<ran, told>>

Next == \E e \in Events :
            \/ Own(e)
            \/ GiveBack(e)
            \/ Run(e)
            \/ \E n \in Notices : GiveBackTelling(e, n) \/ Tell(e, n) \/ Close(e, n)

Spec == Init /\ [][Next]_vars
=============================================================================
