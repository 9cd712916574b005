--------------------------- MODULE FifoProperties ---------------------------
(***************************************************************************)
(* What the readers of a Fifo may rely on, and what they may not.           *)
(***************************************************************************)
EXTENDS Fifo

Waiting(i) == i \in DOMAIN frames /\ ~frames[i].told

(* Every variable keeps its type, and no more than the limit is kept.       *)
TypeOK ==
  /\ status \in Statuses /\ notifier \in BOOLEAN
  /\ {pipe, rest, data, taken} \subseteq Seq(Units)
  /\ Len(data) <= Limit
  /\ line \in 0..MaxLines
  /\ queue \in Seq(Call)
  /\ frames \in Seq(Frame)
  /\ reader \in [Readers -> {"idle", "blocked"} \cup Kinds]
  /\ returned \in Seq(0..MaxLines)
  /\ dropped \in Nat

Increasing(s) == \A i, j \in DOMAIN s : i < j => s[i] < s[j]

(* However the waits of several readers nest, no line is returned twice or  *)
(* after a later one.                                                      *)
LinesOnce ==
  \A i, j \in DOMAIN returned :
    i < j /\ returned[i] # 0 /\ returned[j] # 0 => returned[i] < returned[j]

(* What has left the pipe, and what is in it.                               *)
Bytes == taken \o data \o pipe

(* Every byte that has left the pipe has been returned, waits to be, or has *)
(* been dropped at the limit, once, and bytes stay in order.                *)
BytesOnce ==
  /\ Increasing(Bytes)
  /\ dropped = 0 =>
       \A n \in 1..MaxLines :
         2 * n + 1 < next => \E i \in DOMAIN Bytes : Bytes[i] = 2 * n + 1

(* What the pipe carried is handed out once, whoever reads it and however.  *)
HandedOutOnce == LinesOnce /\ BytesOnce

(* A read that waits and has not been told to return has nothing to return: *)
(* no reader sleeps on a line or on bytes that are there.                   *)
NobodySleepsOnInput == \A i \in DOMAIN frames : Waiting(i) => Empty(frames[i].kind)

(* Each reader that is blocked has one call in the queue or one wait on the *)
(* worker's stack, and nobody else has one: an answer finds its caller.     *)
BlockedIsServed ==
  \A r \in Readers :
    Cardinality({i \in DOMAIN queue : queue[i].by = r})
      + Cardinality({i \in DOMAIN frames : frames[i].by = r})
        = (IF reader[r] = "blocked" THEN 1 ELSE 0)

(* The types, and a caller for every call and wait.                         *)
Consistent == TypeOK /\ BlockedIsServed

(* A reader whose wait was told to return does return, unless another       *)
(* reader's wait, which has begun since, keeps the worker.                  *)
ToldReturns ==
  \A r \in Readers :
    (\E i \in DOMAIN frames : frames[i].by = r /\ frames[i].told)
      ~> (reader[r] # "blocked" \/ \E i \in DOMAIN frames : Waiting(i))

-----------------------------------------------------------------------------
(* What the documentation says and the code does not keep.                  *)

(* fifoInterface.h of read: "Reads line from this FIFO file" - a line that  *)
(* was there when it was asked for.                                        *)
ReadReturnsLine == \A i \in DOMAIN returned : returned[i] # 0

(* ... and a reader is not kept waiting while there is a line for it.       *)
ReadReturns ==
  \A r \in Readers : (reader[r] = "blocked") ~> (reader[r] # "blocked")
=============================================================================
