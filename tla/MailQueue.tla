------------------------------- MODULE MailQueue -------------------------------
(***************************************************************************)
(* The queue between a request that has issued a code and the sending of   *)
(* the mail (identity/adapters/smtp/queue.go): a bounded channel and one   *)
(* goroutine that empties it.                                              *)
(*                                                                         *)
(* What is queued lives in the process, and a mail may fail; nobody sends  *)
(* it again.  A mail that is being sent has left the channel: it arrives,  *)
(* or does not, when it leaves.                                            *)
(***************************************************************************)
EXTENDS Naturals, Sequences

CONSTANTS
  Codes,
  Capacity   \* of the channel

ASSUME CapacityAssumption == Capacity \in Nat \ {0}

VARIABLES
  queue,     \* codes that are to be sent
  mailbox    \* codes that have arrived

mail == <<queue, mailbox>>

MailInit ==
  /\ queue = <<>>
  /\ mailbox = {}

(* The request does not wait: the code is dropped when the channel is full, *)
(* the queue has been stopped, or the client is gone.                       *)
SendCode(code) ==
  /\ \/ Len(queue) < Capacity /\ queue' = Append(queue, code)
     \/ UNCHANGED queue
  /\ UNCHANGED mailbox

Deliver ==
  /\ queue # <<>>
  /\ queue' = Tail(queue)
  /\ mailbox' \in {mailbox, mailbox \cup {Head(queue)}}

(* The process stops, and another takes its place. *)
Restart ==
  /\ queue' = <<>>
  /\ UNCHANGED mailbox

Mailing == Deliver \/ Restart

MailTypeOK ==
  /\ queue \in Seq(Codes)
  /\ Len(queue) <= Capacity
  /\ mailbox \subseteq Codes

(* What is on its way to somebody or has arrived.                           *)
Posted == mailbox \cup {queue[i] : i \in 1..Len(queue)}

=============================================================================
