------------------------------ MODULE Notifier ------------------------------
(* TelegramNotifier.send (src/src/bot/notifications/telegram.py) and the    *)
(* tasks that share it: the loops of the bots and the resolver, through the *)
(* event bus, and main().  A message is stamped under the lock and leaves   *)
(* later, outside of it.  Time is told in ages, which NTick lets grow.      *)
EXTENDS Integers, Sequences, FiniteSets

CONSTANTS Senders,      \* the tasks that send, one message at a time each
          Window,       \* the limiter's minute
          SendMax,      \* longest from the stamp until the request has left
          Limit,        \* rate_limit_per_min
          MaxMessages   \* bound: messages of one behaviour

ASSUME NotifierAssumption ==
    /\ {Window, Limit, MaxMessages} \subseteq Nat \ {0}
    /\ SendMax \in 0..Window

VARIABLES sender,    \* sender[s]: where s is in send(), and with which message
          stamps,    \* ages of _timestamps, oldest first
          admitted,  \* admitted[i], a history: how long ago message i passed the limiter
          left       \* left[i], a history: how long ago it left, Far if it did not

nvars == <<sender, stamps, admitted, left>>

Far == Window + 1
Free == [pc |-> "idle", msg |-> 0]

NTypeOK ==
    /\ sender \in [Senders -> [pc : {"idle", "send", "answer"}, msg : 0..MaxMessages]]
    /\ stamps \in Seq(Nat) /\ Len(stamps) <= Limit
    /\ admitted \in Seq(Nat) /\ left \in Seq(Nat)
    /\ Len(left) = Len(admitted) /\ Len(admitted) <= MaxMessages

NInit == sender = [s \in Senders |-> Free] /\ stamps = <<>> /\ admitted = <<>> /\ left = <<>>

-----------------------------------------------------------------------------
(* The old stamps go, from the old end up to the first that is not old.     *)
AllOldTooSoon(ages, n) ==                   \* mutant: the window ends one instant early
    /\ \A i \in 1..n : ages[i] >= Window
    /\ n < Len(ages) => ages[n + 1] < Window
AllOld(ages, n) ==
    /\ \A i \in 1..n : ages[i] > Window
    /\ n < Len(ages) => ages[n + 1] <= Window
Recent(ages) ==
    LET old == CHOOSE n \in 0..Len(ages) : AllOld(ages, n)
    IN SubSeq(ages, old + 1, Len(ages))

Moves(s, where, i) == sender' = [sender EXCEPT ![s] = [pc |-> where, msg |-> i]]

(* Under the lock there is room: the message is stamped before it is sent.  *)
Admitted(s) ==
    /\ sender[s].pc = "idle" /\ Len(admitted) < MaxMessages
    /\ Len(Recent(stamps)) < Limit
    /\ stamps' = Append(Recent(stamps), 0)
    /\ admitted' = Append(admitted, 0) /\ left' = Append(left, Far)
    /\ Moves(s, "send", Len(admitted) + 1)

(* There is none: the message is dropped.                                   *)
Refused(s) ==
    /\ sender[s].pc = "idle" /\ Len(Recent(stamps)) >= Limit
    /\ stamps' = Recent(stamps)
    /\ UNCHANGED <<sender, admitted, left>>

(* The client has connected and the request leaves.                         *)
Leaves(s) ==
    /\ sender[s].pc = "send" /\ Moves(s, "answer", sender[s].msg)
    /\ left' = [left EXCEPT ![sender[s].msg] = 0]
    /\ UNCHANGED <<stamps, admitted>>

(* Answered, or at any point timed out, failed or cancelled: the stamp stays.*)
Ends(s) ==
    /\ sender[s].pc # "idle" /\ sender' = [sender EXCEPT ![s] = Free]
    /\ UNCHANGED <<stamps, admitted, left>>

Aged(age) == IF age < Far THEN age + 1 ELSE Far
Grown(ages) == [i \in DOMAIN ages |-> Aged(ages[i])]

(* No request is on its way for longer than SendMax.                        *)
NTick ==
    /\ \A s \in Senders : sender[s].pc = "send" => admitted[sender[s].msg] < SendMax
    /\ stamps' = Grown(stamps) /\ admitted' = Grown(admitted) /\ left' = Grown(left)
    /\ UNCHANGED sender

NNext == NTick \/ \E s \in Senders : Admitted(s) \/ Refused(s) \/ Leaves(s) \/ Ends(s)

NSpec == NInit /\ [][NNext]_nvars

-----------------------------------------------------------------------------
(* Whoever sends and however long each request takes to get out, no more    *)
(* than Limit messages leave within Window - SendMax.  (Within a whole      *)
(* Window more may leave: those delayed and those admitted after them.)     *)
TelegramRate == Cardinality({i \in DOMAIN left : left[i] <= Window - SendMax}) <= Limit
=============================================================================
