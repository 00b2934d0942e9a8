---------------------------- MODULE Notifications ----------------------------
(***************************************************************************)
(* Messages to the customer (packages/notifications): what is sent for an  *)
(* event (planNotifications), which reminders fall due (dueReminders), and *)
(* the batches that send them (sendNotifications), each awaiting one       *)
(* provider call at a time over a set of sent keys they all share.  The    *)
(* host runs batches again for whatever failed, runs two at once, and      *)
(* looks for reminders at least once per horizon; the provider may refuse  *)
(* a message, or take it and lose the answer.                              *)
(***************************************************************************)
EXTENDS Integers, Sequences, FiniteSets, Bags, SequencesExt, FiniteSetsExt

CONSTANTS
  Batches,         \* the batches that may run at once
  ChannelPolicy,   \* config.events: event -> sequence of channels
  ReminderRules,   \* config.reminders: [id, offset, channels]
  Templates,       \* config.templates: a sequence of [trigger, channel, locale]
  Reachable,       \* the channels the booking has an address for
  BookingLocale, DefaultLocale,
  Languages,       \* locale -> its language
  SlotStart, ReminderHorizon, MaxNoticeTime,
  MaxDeliveries    \* bound on the deliveries of one key

ASSUME NoticeAssumption ==
  /\ SlotStart \in Nat /\ ReminderHorizon \in Nat /\ MaxNoticeTime \in Nat
  /\ IsFiniteSet(Batches) /\ IsFiniteSet(ReminderRules)
  /\ \A r \in ReminderRules :
       r.offset \in Nat \ {0} /\ r.channels \in Seq(STRING) /\ r.channels # << >>

VARIABLES
  noticeTime,
  bookingState,
  confirmedAt,     \* when it was confirmed
  lastLook,        \* when the host last looked for reminders
  batch,           \* the batches under way
  alreadySent,     \* the caller-owned set of sent keys
  planned,         \* the keys ever handed to a batch
  delivered,       \* what the provider took, with counts
  unanswered       \* what it took without the answer arriving, with counts

noticing == <<noticeTime, bookingState, confirmedAt, lastLook, batch, alreadySent,
              planned, delivered, unanswered>>

Idle == [todo |-> << >>, seen |-> {}, awaits |-> FALSE]

\* resolveTemplate: the locale, its language, the default, any.
Template(trigger, channel, locale) ==
  LET fits == SelectSeq(Templates, LAMBDA t : t.trigger = trigger /\ t.channel = channel)
      wanted == <<SelectSeq(fits, LAMBDA t : t.locale = locale),
                  SelectSeq(fits, LAMBDA t : Languages[t.locale] = Languages[locale]),
                  SelectSeq(fits, LAMBDA t : t.locale = DefaultLocale),
                  fits>>
  IN FlattenSeq(wanted)

\* providerTemplateFor, of the triggers a booking meets here.
ProviderTemplate(trigger) ==
  CASE trigger = "reminder" -> "booking_reminder"
    [] trigger \in {"booking.cancelled", "booking.failed"} -> "booking_cancelled"
    [] trigger \in {"booking.refunded", "payment.refunded"} -> "refund_issued"
    [] OTHER -> "booking_confirmed"

\* A rendered notification; its fields but the wording and the template name
\* are the parts of its dedupe key.
Rendered(trigger, channel, reminder) ==
  [key |-> <<trigger, channel, reminder>>, template |-> ProviderTemplate(trigger),
   locale |-> Template(trigger, channel, BookingLocale)[1].locale]

\* renderOne: a channel without an address or a template is left out.
CanRender(trigger, channel) ==
  channel \in Reachable /\ Template(trigger, channel, BookingLocale) # << >>

KeysOf(todo) == {todo[i].key : i \in DOMAIN todo}

\* The loop over the channels, each of which is taken once.
WithChannel(out, trigger, channel, reminder) ==
  IF CanRender(trigger, channel) /\ <<trigger, channel, reminder>> \notin KeysOf(out)
  THEN Append(out, Rendered(trigger, channel, reminder)) ELSE out

RenderAll(trigger, channels, reminder) ==
  FoldLeft(LAMBDA out, c : WithChannel(out, trigger, c, reminder), << >>, channels)

PlanNotifications(event) ==
  IF event \in DOMAIN ChannelPolicy THEN RenderAll(event, ChannelPolicy[event], 0) ELSE << >>

Due(r) == SlotStart - r.offset - noticeTime \in 0 .. ReminderHorizon

DueReminders ==
  IF bookingState # "confirmed" THEN << >>
  ELSE FoldLeft(LAMBDA out, r : out \o RenderAll("reminder", r.channels, r.id), << >>,
                SetToSeq({r \in ReminderRules : Due(r)}))

NoticeInit ==
  /\ noticeTime = 0 /\ lastLook = 0
  /\ bookingState = "pending_payment" /\ confirmedAt = -1
  /\ batch = [b \in Batches |-> Idle]
  /\ alreadySent = {} /\ planned = {}
  /\ delivered = EmptyBag /\ unanswered = EmptyBag

\* The booking moves and its event is announced; the events are the customer's
\* confirmation and a cancellation.
Moves(from, to) ==
  /\ bookingState = from
  /\ bookingState' = to
  /\ confirmedAt' = IF to = "confirmed" THEN noticeTime ELSE confirmedAt
  /\ UNCHANGED <<noticeTime, lastLook, batch, alreadySent, planned, delivered, unanswered>>

\* sendNotifications begins: the keys already sent are copied.
Begin(b, todo) ==
  /\ batch[b].todo = << >>
  /\ batch' = [batch EXCEPT ![b] = [todo |-> todo, seen |-> alreadySent, awaits |-> FALSE]]
  /\ planned' = planned \cup KeysOf(todo)

\* planNotifications for the event that led to the booking's state; the host
\* may repeat it for what failed.
Announce(b) ==
  /\ Begin(b, PlanNotifications("booking." \o bookingState))
  /\ UNCHANGED <<noticeTime, bookingState, confirmedAt, lastLook, alreadySent, delivered,
                 unanswered>>

Remind(b) ==
  /\ Begin(b, DueReminders)
  /\ lastLook' = noticeTime
  /\ UNCHANGED <<noticeTime, bookingState, confirmedAt, alreadySent, delivered, unanswered>>

Current(b) == Head(batch[b].todo).key
Advanced(b) == [batch EXCEPT ![b].todo = Tail(@), ![b].awaits = FALSE]

\* A key this batch has seen is skipped.
SkipSeen(b) ==
  /\ batch[b].todo # << >> /\ ~batch[b].awaits
  /\ Current(b) \in batch[b].seen
  /\ batch' = Advanced(b)
  /\ UNCHANGED <<noticeTime, bookingState, confirmedAt, lastLook, alreadySent, planned,
                 delivered, unanswered>>

\* provider.send is called for any other.
Send(b) ==
  /\ batch[b].todo # << >> /\ ~batch[b].awaits
  /\ Current(b) \notin batch[b].seen
  /\ batch' = [batch EXCEPT ![b].awaits = TRUE]
  /\ UNCHANGED <<noticeTime, bookingState, confirmedAt, lastLook, alreadySent, planned,
                 delivered, unanswered>>

\* How often a message was taken, or taken without an answer.
Times(k, bag) == IF BagIn(k, bag) THEN bag[k] ELSE 0

Takes(k) ==
  /\ Times(k, delivered) < MaxDeliveries
  /\ delivered' = delivered (+) SetToBag({k})

\* As if the caller's set were not told.
Mutant_SentUntold(b) ==
  /\ batch[b].awaits
  /\ Takes(Current(b))
  /\ batch' = [Advanced(b) EXCEPT ![b].seen = @ \cup {Current(b)}]
  /\ UNCHANGED <<noticeTime, bookingState, confirmedAt, lastLook, alreadySent, planned,
                 unanswered>>

\* The message is taken and its id comes back.
Accepted(b) ==
  /\ batch[b].awaits
  /\ Takes(Current(b))
  /\ batch' = [Advanced(b) EXCEPT ![b].seen = @ \cup {Current(b)}]
  /\ alreadySent' = alreadySent \cup {Current(b)}
  /\ UNCHANGED <<noticeTime, bookingState, confirmedAt, lastLook, planned, unanswered>>

\* The call fails, the message taken or not: the key is not marked, and the
\* batch goes on.
Fails(b, taken) ==
  /\ batch[b].awaits
  /\ IF taken
     THEN /\ Takes(Current(b))
          /\ unanswered' = unanswered (+) SetToBag({Current(b)})
     ELSE UNCHANGED <<delivered, unanswered>>
  /\ batch' = Advanced(b)
  /\ UNCHANGED <<noticeTime, bookingState, confirmedAt, lastLook, alreadySent, planned>>

\* The host never lets a horizon pass without a look.
NoticeTimePasses ==
  /\ noticeTime < MaxNoticeTime
  /\ noticeTime < lastLook + ReminderHorizon
  /\ noticeTime' = noticeTime + 1
  /\ UNCHANGED <<bookingState, confirmedAt, lastLook, batch, alreadySent, planned, delivered,
                 unanswered>>

NoticeNext ==
  \/ Moves("pending_payment", "confirmed")
  \/ \E from \in {"pending_payment", "confirmed"} : Moves(from, "cancelled")
  \/ \E b \in Batches :
       \/ Announce(b) \/ Remind(b) \/ SkipSeen(b) \/ Send(b) \/ Accepted(b)
       \/ \E taken \in BOOLEAN : Fails(b, taken)
  \/ NoticeTimePasses
NoticeSpec == NoticeInit /\ [][NoticeNext]_noticing

-----------------------------------------------------------------------------
\* However often batches are repeated, a message is taken by the provider once
\* for each of the batches that ran at once, and once more for each answer that
\* was lost: sendNotifications marks a key only when its answer arrives, in the
\* set every later batch starts from.
DuplicatesAreExplained ==
  \A k \in BagToSet(delivered) :
    Times(k, delivered) <= Cardinality(Batches) + Times(k, unanswered)

\* A host that looks at least once per horizon misses no reminder of a booking
\* that was confirmed a horizon before the reminder's time: dueReminders takes
\* both ends of its window.
NoReminderMissed ==
  \A r \in ReminderRules :
    /\ bookingState = "confirmed"
    /\ noticeTime > SlotStart - r.offset
    /\ SlotStart - r.offset - confirmedAt >= ReminderHorizon
    => KeysOf(RenderAll("reminder", r.channels, r.id)) \subseteq planned

\* No message too often, and none too few.
NoticesHold == DuplicatesAreExplained /\ NoReminderMissed
=============================================================================
