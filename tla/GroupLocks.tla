----------------------------- MODULE GroupLocks ------------------------------
(***************************************************************************)
(* The locks behind planning groups (migrations 0022, 0025, 0027, 0028):   *)
(* every transaction that touches a booking, its holds or its payments     *)
(* takes tables, the booking's row and the service's advisory lock in the  *)
(* order its functions and triggers do, and keeps them to its end.  Only   *)
(* locks that some other of them refuses are listed.  A request waits for  *)
(* what is held: where it would wait only for a request queued before it,  *)
(* PostgreSQL's deadlock detector reorders the queue.                      *)
(***************************************************************************)
EXTENDS Naturals, Sequences

CONSTANTS Transactions, LockedBookings

VARIABLE tx      \* each connection's transaction: its kind, its booking, and
                 \* how many of its locks it has
locking == <<tx>>

\* PostgreSQL: the modes that exclude each other, or themselves.
Excluding ==
  {{"share", "row_exclusive"}, {"share", "share_row_exclusive"}, {"share_row_exclusive"},
   {"row_exclusive", "share_row_exclusive"}, {"for_share", "update"}, {"update"},
   {"advisory"}}

Table(name, mode) == <<<<name>>, mode>>
BookingRow(b, mode) == <<<<"row", b>>, mode>>
ServiceCapacity == <<<<"service">>, "advisory">>

\* group_prefix
GroupPrefix(strong) ==
  <<Table("policies", "share"),
    Table("heads", IF strong THEN "share_row_exclusive" ELSE "share")>>

\* As if the fence were taken before the tables it is read with.
Mutant_FenceFirst(b) ==
  GroupPrefix(TRUE) \o <<Table("bookings", "share"), Table("holds", "row_exclusive"),
                    BookingRow(b, "for_share"), ServiceCapacity>>
AllocateLocks(b) ==
  <<Table("policies", "share"), Table("bookings", "share"),
    Table("heads", "share_row_exclusive"), Table("holds", "row_exclusive"),
    BookingRow(b, "for_share"), ServiceCapacity>>
ReleaseLocks(b) ==
  GroupPrefix(TRUE) \o <<Table("holds", "row_exclusive"), BookingRow(b, "for_share"), ServiceCapacity>>
PolicyLocks ==
  <<Table("policies", "share_row_exclusive"), Table("bookings", "share"), Table("holds", "share")>>
ReserveLocks(b) ==
  GroupPrefix(FALSE) \o <<BookingRow(b, "for_share"), ServiceCapacity, Table("holds", "row_exclusive")>>
HoldLocks == GroupPrefix(FALSE) \o <<Table("holds", "row_exclusive")>>
PaymentLocks == GroupPrefix(FALSE)

\* An INSERT or UPDATE has its table before any trigger runs, and a trigger FOR
\* EACH ROW of an UPDATE runs when the row is locked.
CreateLocks == <<Table("bookings", "row_exclusive")>> \o GroupPrefix(FALSE)
LinkLocks(b) ==
  <<Table("bookings", "row_exclusive")>> \o GroupPrefix(FALSE) \o <<BookingRow(b, "update")>>
MoveLocks(b) ==
  <<Table("bookings", "row_exclusive"), BookingRow(b, "update")>> \o GroupPrefix(FALSE)

Locks(kind, b) ==
  CASE kind = "none" -> <<>>
    [] kind = "allocate" -> AllocateLocks(b)
    [] kind = "release" -> ReleaseLocks(b)
    [] kind = "policy" -> PolicyLocks
    [] kind = "reserve" -> ReserveLocks(b)
    [] kind = "hold" -> HoldLocks
    [] kind = "payment" -> PaymentLocks
    [] kind = "create" -> CreateLocks
    [] kind = "link" -> LinkLocks(b)
    [] kind = "move" -> MoveLocks(b)

\* Those that lock the booking's row, and the others.
RowKinds == {"allocate", "release", "reserve", "link", "move"}
TableKinds == {"policy", "hold", "payment", "create"}
NoTransaction == [kind |-> "none", booking |-> CHOOSE b \in LockedBookings : TRUE, got |-> 0]

LockInit == tx = [t \in Transactions |-> NoTransaction]

LockProgram(t) == Locks(tx[t].kind, tx[t].booking)
LocksOf(t) == {LockProgram(t)[i] : i \in 1 .. tx[t].got}
LockWanted(t) == {LockProgram(t)[i] : i \in {tx[t].got + 1} \cap DOMAIN LockProgram(t)}

WaitsFor(s, t) ==
  s # t /\ \E want \in LockWanted(s) : \E have \in LocksOf(t) :
             want[1] = have[1] /\ {want[2], have[2]} \in Excluding
WaitsForLock(s) == \E t \in Transactions : WaitsFor(s, t)

BeginTx(t, kind, b) ==
  /\ tx[t] = NoTransaction
  /\ tx' = [tx EXCEPT ![t] = [kind |-> kind, booking |-> b, got |-> 0]]

TakeLock(t) ==
  /\ LockWanted(t) # {} /\ ~WaitsForLock(t)
  /\ tx' = [tx EXCEPT ![t].got = @ + 1]

\* All locks are given back at the commit, or when the deadlock is detected, the
\* lock's or the statement's time is over, or the client is gone.
EndTx(t) ==
  /\ tx[t].kind # "none" /\ (LockWanted(t) = {} \/ WaitsForLock(t))
  /\ tx' = [tx EXCEPT ![t] = NoTransaction]

LockNext ==
  \E t \in Transactions :
    \/ \E kind \in RowKinds, b \in LockedBookings : BeginTx(t, kind, b)
    \/ \E kind \in TableKinds : BeginTx(t, kind, NoTransaction.booking)
    \/ TakeLock(t)
    \/ EndTx(t)

LockSpec == LockInit /\ [][LockNext]_locking
-----------------------------------------------------------------------------
\* A set of transactions none of which can go on before another of it.
Stuck(S) == S # {} /\ \A s \in S : \E t \in S : WaitsFor(s, t)

\* Transactions wait for one another in a circle only where a writer of bookings,
\* who has the table before the fence, meets the save of a policy, or an update
\* that has the booking's row the release of its group.  All others together,
\* allocations and releases, reservations, holds and payments, always come
\* through: a deadlock that a caller is told of is that inversion and nothing else.
OnlyInvertedWritersDeadlock ==
  \A S \in SUBSET Transactions :
    Stuck(S) =>
      \E s, t \in S :
        \/ tx[s].kind \in {"create", "link", "move"} /\ tx[t].kind = "policy"
        \/ /\ tx[s].kind = "move" /\ tx[t].kind = "release"
           /\ tx[s].booking = tx[t].booking
=============================================================================
