----------------------------- MODULE Conversation -----------------------------
(***************************************************************************)
(* The Telegram bot's conversations (conversation.py) and what it keeps    *)
(* (keeping.py, inbox.py): each message of an owner is led to an episode,  *)
(* by the message it replies to or by the owner's active one, and is       *)
(* answered, or clarifies a draft until that is stored in the inbox.       *)
(*                                                                         *)
(* Updates are handled one after the other, so a message is one action,    *)
(* with what may fail inside it as its outcomes.  Time, the lock of the    *)
(* data volume and the end of the process come between any two.  The words *)
(* are left out: whether one message follows on from another, is to be     *)
(* kept, or needs a question is the owner's and the model's choice.        *)
(*                                                                         *)
(* An operator whose name begins with Mutant is a plausible bug in the     *)
(* definition that follows it, for testing the properties; nothing uses it.*)
(***************************************************************************)
EXTENDS Naturals, Sequences, FiniteSets

CONSTANTS
  Owner,        \* who is allowlisted: a user in a chat
  EpisodeLimit, \* episodes the bot remembers (128)
  ReplyLimit,   \* its own messages it remembers (1024)
  TurnLimit,    \* answers after which an episode is closed (16)
  MaxMessages,  \* bound: messages
  MaxFaults     \* bound: failures after a rename, restarts and lockings

ASSUME LimitAssumption ==
  /\ EpisodeLimit \in Nat \ {0} /\ ReplyLimit \in Nat \ {0} /\ TurnLimit \in Nat \ {0}
ASSUME BoundAssumption == MaxMessages \in Nat /\ MaxFaults \in Nat

VARIABLES
  episodes, \* the episodes by key
  recent,   \* their keys, the least recently used first
  active,   \* each owner's episode to go on with; 0 for none
  replies,  \* the bot's remembered messages, oldest first: whose, and of which episode
  serial,   \* the last key given
  items,    \* what the inbox holds: the messages an item is made of
  from,     \* who sent each message
  ready,    \* the data volume is unlocked
  young,    \* the clock, counted from the host's boot, is under 30 minutes
  halfway,  \* stores that failed when the item was there already
  faults

memory == <<episodes, recent, active, replies, serial>>
vars   == <<memory, items, from, ready, young, halfway, faults>>

QuestionLimit == 2

NoDraft == [text |-> 0, replies |-> <<>>, questions |-> 0]

Init ==
  /\ episodes = << >> /\ recent = <<>> /\ active = [o \in Owner |-> 0]
  /\ replies = <<>> /\ serial = 0
  /\ items = <<>> /\ from = <<>>
  /\ ready \in BOOLEAN /\ young \in BOOLEAN
  /\ halfway = 0 /\ faults = 0

Live == DOMAIN episodes

\* What is left of a sequence, in its order.
Without(seq, out) ==
  LET left[i \in 0..Len(seq)] ==
        IF i = 0 THEN <<>>
        ELSE IF seq[i] \in out THEN left[i - 1] ELSE Append(left[i - 1], seq[i])
  IN  left[Len(seq)]

LastOf(seq, n) == SubSeq(seq, IF Len(seq) > n THEN Len(seq) - n + 1 ELSE 1, Len(seq))

Elements(seq) == {seq[i] : i \in 1..Len(seq)}

-----------------------------------------------------------------------------
(* Which episode a message belongs to.                                     *)

\* The episodes a message of o may go on with.  An explicit reply decides; else
\* it is the active one, unless that is old, or the message does not follow on
\* from its answers while nothing is being clarified.  No episode is 0.
Continues(o, reply, new, follows) ==
  LET replied == IF reply # 0 /\ ~new THEN replies[reply].key ELSE 0
      open    == IF new THEN 0 ELSE active[o]
  IN  IF replied \in Live THEN replied
      ELSE IF /\ open \in Live /\ episodes[open].fresh
              /\ \/ episodes[open].draft # NoDraft
                 \/ episodes[open].turns = 0
                 \/ follows
           THEN open ELSE 0

MutantNewKey == Len(recent) + 1

NewKey == serial + 1

\* The episode of a message, with the memory as the lookup leaves it: a new one
\* is at time 0, and the least recently used go when there are too many.
Found(o, reply, new, follows) ==
  LET k    == Continues(o, reply, new, follows)
      key  == IF k = 0 THEN NewKey ELSE k
      used == LastOf(Append(Without(recent, {key}), key), EpisodeLimit)
      all  == IF k = 0
              THEN [e \in Live \cup {key} |->
                     IF e = key THEN [fresh |-> young, turns |-> 0, draft |-> NoDraft]
                                ELSE episodes[e]]
              ELSE episodes
  IN  [key |-> key, recent |-> used,
       episodes |-> [e \in Elements(used) |-> all[e]],
       serial |-> IF k = 0 THEN key ELSE serial]

Remembered(o, key) == LastOf(Append(replies, [owner |-> o, key |-> key]), ReplyLimit)

\* The messages of the bot that o can reply to; 0 for none or a forgotten one.
Replyable(o) == {0} \cup {i \in 1..Len(replies) : replies[i].owner = o}

-----------------------------------------------------------------------------
(* Messages.                                                               *)

Message(o) ==
  /\ Len(from) < MaxMessages /\ from' = Append(from, o)
  /\ UNCHANGED <<ready, young>>

This == Len(from) + 1

\* The handler's lookup; f is what it found.
Looked(o, f) ==
  /\ recent' = f.recent /\ serial' = f.serial
  /\ active' = [active EXCEPT ![o] = f.key]

\* A message that gets no more than a refusal or an excuse: the volume is
\* locked, the planning data or the model is not there, or the model's answer
\* is of no use.  A draft takes no part while the volume is locked.
Excuse(o, f) ==
  /\ ready => f.episodes[f.key].draft = NoDraft
  /\ Looked(o, f) /\ episodes' = f.episodes
  /\ UNCHANGED <<replies, items, halfway, faults>>

\* An answer; a proposed order leaves no message to reply to here.  An episode
\* that has become long, in answers or in letters, is closed.
Answer(o, f) ==
  LET e == f.episodes[f.key] IN
  /\ ready /\ e.draft = NoDraft
  /\ episodes' = [f.episodes EXCEPT ![f.key].turns = IF @ < TurnLimit THEN @ + 1 ELSE @,
                                    ![f.key].fresh = TRUE]
  /\ recent' = f.recent /\ serial' = f.serial
  /\ \E long \in {TRUE, e.turns + 1 >= TurnLimit} :
       active' = [active EXCEPT ![o] = IF long THEN 0 ELSE f.key]
  /\ replies' \in {replies, Remembered(o, f.key)}
  /\ UNCHANGED <<items, halfway, faults>>

\* The draft that a message begins or clarifies.
Drafted(f) ==
  LET draft == f.episodes[f.key].draft
  IN  IF draft = NoDraft THEN [NoDraft EXCEPT !.text = This]
      ELSE [draft EXCEPT !.replies = Append(@, This)]

MutantClarify(o, f) ==
  /\ ready /\ recent' = f.recent /\ serial' = f.serial
  /\ active' = [active EXCEPT ![o] = 0]
  /\ episodes' = [f.episodes EXCEPT ![f.key].draft = Drafted(f)]
  /\ UNCHANGED <<replies, items, halfway, faults>>

\* begin and turn: the message is in the draft before anything else is tried.
\* The model or the store may fail, which leaves it there.
Clarify(o, f) ==
  /\ ready /\ Looked(o, f)
  /\ episodes' = [f.episodes EXCEPT ![f.key].draft = Drafted(f)]
  /\ UNCHANGED <<replies, items, halfway, faults>>

\* One of two questions at most; the owner may not receive it.
Question(o, f) ==
  /\ ready /\ Looked(o, f)
  /\ Drafted(f).questions < QuestionLimit
  /\ episodes' = [f.episodes EXCEPT
       ![f.key].draft = [Drafted(f) EXCEPT !.questions = @ + 1],
       ![f.key].fresh = TRUE]
  /\ replies' \in {replies, Remembered(o, f.key)}
  /\ UNCHANGED <<items, halfway, faults>>

Stored(draft) == items' = Append(items, <<draft.text>> \o draft.replies)

MutantDiscarded(o, eps, rec, key) ==
  /\ episodes' = eps /\ recent' = rec
  /\ active' = [active EXCEPT ![o] = 0]
  /\ UNCHANGED replies

\* discard: an episode and its replies go, and the owner goes on with none.
Discarded(o, eps, rec, key) ==
  /\ episodes' = [e \in DOMAIN eps \ {key} |-> eps[e]]
  /\ recent' = Without(rec, {key})
  /\ active' = [active EXCEPT ![o] = 0]
  /\ replies' = Without(replies, [owner : Owner, key : {key}])

\* The draft is stored and its episode with it forgotten.
Keep(o, f) ==
  /\ ready /\ Stored(Drafted(f))
  /\ serial' = f.serial
  /\ Discarded(o, f.episodes, f.recent, f.key)
  /\ UNCHANGED <<halfway, faults>>

Fault == faults < MaxFaults /\ faults' = faults + 1

\* The item is renamed into place and the flush after it fails: the owner is told
\* of a failure, and the draft goes on.
KeepHalfway(o, f) ==
  /\ Fault /\ halfway' = halfway + 1
  /\ ready /\ Looked(o, f) /\ Stored(Drafted(f))
  /\ episodes' = [f.episodes EXCEPT ![f.key].draft = Drafted(f)]
  /\ UNCHANGED replies

Text(o) ==
  /\ Message(o)
  /\ \E reply \in Replyable(o), new \in BOOLEAN, follows \in BOOLEAN :
       LET f == Found(o, reply, new, follows)
       IN  \/ Excuse(o, f) \/ Answer(o, f)
           \/ Clarify(o, f) \/ Question(o, f) \/ Keep(o, f) \/ KeepHalfway(o, f)

\* A file is kept at once; the owner's active episode is discarded.
Attach(o) ==
  /\ Message(o) /\ ready
  /\ items' = Append(items, <<This>>)
  /\ Discarded(o, episodes, recent, active[o])
  /\ UNCHANGED <<serial, halfway, faults>>

\* file_check and store refuse a file, or its download fails: nothing is kept.
AttachRefused(o) ==
  /\ Message(o)
  /\ UNCHANGED <<memory, items, halfway, faults>>

\* The file's item is in place and the flush after it fails: nothing is discarded.
AttachHalfway(o) ==
  /\ Message(o) /\ ready
  /\ Fault /\ halfway' = halfway + 1
  /\ items' = Append(items, <<This>>)
  /\ UNCHANGED memory

\* A command, or a tap on an order of the owner's: nothing is active any more.
Close(o) ==
  /\ active[o] # 0 /\ active' = [active EXCEPT ![o] = 0]
  /\ UNCHANGED <<episodes, recent, replies, serial, items, from, ready, young, halfway, faults>>

\* Half an hour passes.
Wait ==
  /\ young' = FALSE
  /\ episodes' = [e \in Live |-> [episodes[e] EXCEPT !.fresh = FALSE]]
  /\ UNCHANGED <<recent, active, replies, serial, items, from, ready, halfway, faults>>

\* The volume is locked or unlocked.
Lock ==
  /\ Fault /\ ready' = ~ready
  /\ UNCHANGED <<memory, items, from, young, halfway>>

\* The process ends and starts again with nothing but the inbox.
Restart ==
  /\ Fault /\ serial > 0
  /\ episodes' = << >> /\ recent' = <<>> /\ active' = [o \in Owner |-> 0]
  /\ replies' = <<>> /\ serial' = 0
  /\ UNCHANGED <<items, from, ready, young, halfway>>

Next ==
  \/ \E o \in Owner : Text(o) \/ Attach(o) \/ AttachRefused(o) \/ AttachHalfway(o) \/ Close(o)
  \/ Wait \/ Lock \/ Restart

Spec == Init /\ [][Next]_vars

-----------------------------------------------------------------------------
TypeOK ==
  /\ serial \in Nat /\ Live \subseteq 1..serial /\ Elements(recent) = Live
  /\ Len(recent) = Cardinality(Live) /\ Cardinality(Live) <= EpisodeLimit
  /\ \A k \in Live : episodes[k].turns <= TurnLimit
  /\ active \in [Owner -> Nat] /\ Len(replies) <= ReplyLimit

\* The live episodes that o can lead a message to.
Within(o) ==
  Live \cap ({active[o]} \cup {replies[i].key : i \in {j \in 1..Len(replies) : replies[j].owner = o}})

\* The messages an episode's draft is made of.
Words(k) ==
  LET d == episodes[k].draft IN IF d = NoDraft THEN <<>> ELSE <<d.text>> \o d.replies

\* One owner's history never reaches another: whatever is evicted, discarded or
\* replied to late, no episode is within reach of two owners, and a draft within
\* an owner's reach holds that owner's words only.
OwnersApart ==
  \A o \in Owner :
    /\ \A p \in Owner \ {o} : Within(o) \cap Within(p) = {}
    /\ \A k \in Within(o) : \A m \in Elements(Words(k)) : from[m] = o

Rising(seq) == \A i, j \in 1..Len(seq) : i < j => seq[i] < seq[j]

\* An item holds messages of one owner in the order they were sent, and no
\* message is kept twice, but for stores that failed after the fact.
KeptOnce ==
  /\ \A i \in 1..Len(items) :
       /\ Rising(items[i])
       /\ \A m \in Elements(items[i]) : from[m] = from[items[i][1]]
  /\ \A m \in 1..Len(from) :
       Cardinality({i \in 1..Len(items) : m \in Elements(items[i])}) <= 1 + halfway

\* The episodes a next message of o can go on with although it is no follow-up:
\* the active one while it is fresh, and those of the messages o can reply to.
Reach(o) ==
  {k \in Live : \/ active[o] = k /\ episodes[k].fresh
                \/ [owner |-> o, key |-> k] \in Elements(replies)}

\* The draft of k is kept whole, or gone with the process, as the least recently
\* used of too many, or because its owner sent a file.
Ended(k) ==
  \/ \E i \in 1..Len(items') \ 1..Len(items) : items'[i] = Append(Words(k), This)
  \/ serial' < serial
  \/ k = Head(recent) /\ Cardinality(Live) = EpisodeLimit /\ serial' > serial
  \/ \E o \in Owner : active[o] = k /\ active'[o] = 0 /\ Len(items') > Len(items)

\* o turns from k by a command, something kept, or a message led to another
\* episode; half an hour passes; or the message of k to reply to is forgotten.
LeftAlone(o, k) ==
  \/ /\ active[o] = k /\ active'[o] # k
     /\ from' = from \/ Len(items') > Len(items) \/ recent'[Len(recent')] # k
  \/ active[o] = k /\ from' = from /\ ~episodes'[k].fresh
  \/ /\ Len(replies) = ReplyLimit /\ Head(replies) = [owner |-> o, key |-> k]
     /\ replies' # replies

\* What an owner can go on to keep stays so, and whole, until it is kept: no
\* failed call or store, eviction, lost question or other owner's message alters
\* a draft or takes it out of its owner's reach, unless the draft ends or its
\* owner leaves it alone.
DraftStaysInReach ==
  [][\A k \in Live : Words(k) # <<>> =>
       \/ Ended(k)
       \/ /\ k \in Live' /\ \E rest \in {<<>>, <<This>>} : Words(k)' = Words(k) \o rest
          /\ \A o \in Owner : k \in Reach(o) => k \in Reach(o)' \/ LeftAlone(o, k)]_vars

\* A draft whose message was not kept at once can be kept by the next one: "The
\* known draft can still be kept without a model call after a failure"
\* (test_inbox_clarification_cannot_act).  Not so of a failed first call in an
\* episode at time 0, which is as old as the host's uptime.
DraftCanBeKept ==
  [][\A o \in Owner, k \in Live' :
       from' = Append(from, o) /\ This \in Elements(Words(k)') => k \in Reach(o)']_vars
=============================================================================
