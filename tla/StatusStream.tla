------------------------------ MODULE StatusStream ------------------------------
(***************************************************************************)
(* What the receive pipeline promises its two consumers, the control loop  *)
(* and readOnce: statuses come in the order they were published, each to   *)
(* one of them.  The loop waits between turns and wakes for a status; it   *)
(* wakes for nothing only if a stop() or a readOnce left a wake-up to      *)
(* spare, once for each.  The loop ends only when it was asked to, by a    *)
(* callback or by stop(), and as long as it is asked it begins no turn.    *)
(***************************************************************************)
EXTENDS Integers, Sequences

CONSTANT Statuses

VARIABLES waiting,   \* statuses published and not yet taken
          taken,     \* those taken, by either consumer
          spare,     \* wake-ups no waiting status stands for
          phase,     \* the loop: "off", "deciding", "waiting" or "holding"
          asked,     \* of the loop: "run" or "end"
          caller     \* of stop(): "away", "asking" or "waking"
streamVars == <<waiting, taken, spare, phase, asked, caller>>

StreamInit == /\ waiting = <<>> /\ taken = <<>> /\ spare = 0
              /\ phase = "off" /\ asked = "run" /\ caller = "away"

Publish == /\ \E s \in Statuses : waiting' = Append(waiting, s)
           /\ UNCHANGED <<taken, spare, phase, asked, caller>>

TakeFirst == /\ waiting # <<>>
             /\ taken'   = Append(taken, Head(waiting))
             /\ waiting' = Tail(waiting)

ReadOnce == /\ phase = "off"
            /\ TakeFirst
            /\ spare' = spare + 1
            /\ UNCHANGED <<phase, asked, caller>>

(* The loop *)

Enter(p, wish) == phase' = p /\ asked' = wish /\ UNCHANGED caller

Begin == phase = "off" /\ Enter("deciding", "run") /\ UNCHANGED <<waiting, taken, spare>>

Turn == /\ phase = "deciding" /\ asked = "run"
        /\ Enter("waiting", asked)
        /\ UNCHANGED <<waiting, taken, spare>>

Take == phase = "waiting" /\ TakeFirst /\ Enter("holding", asked) /\ UNCHANGED spare

WakeForNothing == /\ phase = "waiting" /\ waiting = <<>> /\ spare > 0
                  /\ spare' = spare - 1
                  /\ Enter("deciding", asked)
                  /\ UNCHANGED <<waiting, taken>>

CallBack == /\ phase = "holding"
            /\ Enter("deciding", asked) \/ Enter("deciding", "end")
            /\ UNCHANGED <<waiting, taken, spare>>

End == /\ phase = "deciding" /\ asked = "end"
       /\ Enter("off", "run")
       /\ UNCHANGED <<waiting, taken, spare>>

(* stop() may be heard as soon as it begins.  Once it has told, a loop     *)
(* that runs is asked to end, and it is woken after that.                  *)
Ask == /\ caller = "away"
       /\ caller' = "asking"
       /\ asked' = asked \/ (phase # "off" /\ asked' = "end")
       /\ UNCHANGED <<waiting, taken, spare, phase>>

Tell == /\ caller = "asking"
        /\ caller' = "waking"
        /\ asked' = IF phase = "off" THEN "run" ELSE "end"
        /\ UNCHANGED <<waiting, taken, spare, phase>>

Wake == /\ caller = "waking"
        /\ caller' = "away"
        /\ spare' = spare + 1
        /\ UNCHANGED <<waiting, taken, phase, asked>>

StreamNext == \/ Publish \/ ReadOnce \/ Ask \/ Tell \/ Wake
              \/ Begin \/ Turn \/ Take \/ WakeForNothing \/ CallBack \/ End

StreamSpec == StreamInit /\ [][StreamNext]_streamVars
=============================================================================
