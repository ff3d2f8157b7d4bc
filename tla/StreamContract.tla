----------------------------- MODULE StreamContract ----------------------------
(***************************************************************************)
(* What a handle of pkg/sandbox on something that goes on making news (the *)
(* output of a terminal, the changes under a directory) promises, with no  *)
(* connection, goroutine, channel or callback in sight.  Whoever listens   *)
(* gets the news made since the handle was opened, one after another and   *)
(* none left out.  The handle reaches one verdict: that all is well, which *)
(* it may say only of a source that is over and was heard to its end, or   *)
(* when it was asked to stop; or that it lost its source, which it may say *)
(* only when it did.  Nothing is delivered after the verdict, and every    *)
(* Wait that is answered is answered with it.                              *)
(*                                                                         *)
(* PtyStream and DirectoryWatch implement it.  News is its number.         *)
(***************************************************************************)
EXTENDS Naturals, Sequences

CONSTANTS Waiters

VARIABLES
  opened,   \* the handle exists
  first,    \* how much news was made before it did
  made,     \* how much has been made
  listens,  \* somebody listens
  got,      \* the news delivered
  over,     \* the source makes no more
  broken,   \* the way from the source to the handle failed
  asked,    \* the handle was asked to stop
  verdict,  \* "pending", "well" or "lost"
  answers   \* Waiters -> "idle", "waiting", "gaveUp" or a verdict

vars == <<opened, first, made, listens, got, over, broken, asked, verdict, answers>>

Init ==
  /\ opened \in BOOLEAN
  /\ first = 0 /\ made = 0
  /\ listens \in BOOLEAN
  /\ got = <<>>
  /\ over = FALSE /\ broken = FALSE /\ asked = FALSE
  /\ verdict = "pending"
  /\ answers = [w \in Waiters |-> "idle"]

Open ==
  /\ ~opened
  /\ opened' = TRUE
  /\ first' \in Nat /\ made' = first'
  /\ listens' \in BOOLEAN
  /\ UNCHANGED <<got, over, broken, asked, verdict, answers>>

Make ==
  /\ opened /\ ~over
  /\ made' = made + 1
  /\ UNCHANGED <<opened, first, listens, got, over, broken, asked, verdict,
                 answers>>

End ==
  /\ opened
  /\ over' = TRUE
  /\ UNCHANGED <<opened, first, made, listens, got, broken, asked, verdict,
                 answers>>

Fail ==
  /\ opened
  /\ broken' = TRUE
  /\ over' \in {over, TRUE}
  /\ UNCHANGED <<opened, first, made, listens, got, asked, verdict, answers>>

Ask ==
  /\ opened
  /\ asked' = TRUE
  /\ UNCHANGED <<opened, first, made, listens, got, over, broken, verdict,
                 answers>>

Deliver ==
  /\ verdict = "pending" /\ listens
  /\ first + Len(got) < made
  /\ got' = Append(got, first + Len(got) + 1)
  /\ UNCHANGED <<opened, first, made, listens, over, broken, asked, verdict,
                 answers>>

HeardToTheEnd == over /\ ~broken /\ (listens => first + Len(got) = made)

Conclude ==
  /\ opened /\ verdict = "pending"
  /\ \/ verdict' = "well" /\ (HeardToTheEnd \/ asked)
     \/ verdict' = "lost" /\ broken
  /\ UNCHANGED <<opened, first, made, listens, got, over, broken, asked, answers>>

\* What becomes of a call of Wait.
Becomes(w, from, to) ==
  /\ answers[w] = from
  /\ answers' = [answers EXCEPT ![w] = to]
  /\ UNCHANGED <<opened, first, made, listens, got, over, broken, asked,
                 verdict>>

Wait(w) == opened /\ Becomes(w, "idle", "waiting")

Answer(w) == verdict # "pending" /\ Becomes(w, "waiting", verdict)

GiveUp(w) == Becomes(w, "waiting", "gaveUp")

Next ==
  \/ Open \/ Make \/ End \/ Fail \/ Ask \/ Deliver \/ Conclude
  \/ \E w \in Waiters : Wait(w) \/ Answer(w) \/ GiveUp(w)

Spec == Init /\ [][Next]_vars
===============================================================================
