-------------------------- MODULE QueryObjectProofs --------------------------
(* Theorems about QueryObject, for any number of server threads and updates.    *)
EXTENDS QueryObject, SequenceTheorems, TLAPS

Object == [log : Seq(Nat), version : Nat]
Update == [version : Nat, msg : Nat]

(* The updates in the first n of the messages.                                  *)
Log(messages, n) == [i \in 1..n |-> messages[i].msg]

(* The shape of the state.                                                      *)
QueryShape ==
  /\ master \in Object /\ replica \in Object
  /\ server \in [ServerThread -> [pc : {"idle", "lock", "publish"}, version : Nat, msg : Nat]]
  /\ taken \in Nat
  /\ published \in Seq(Update) /\ buffered_messages \in Seq(Update)
  /\ delivered \in Int /\ -1 <= delivered /\ delivered <= Len(published)
  /\ playback \in Nat \ {0}
  /\ poll \in [pc : {"idle", "buffer", "update"}, msg : Nat]
  /\ poll.pc # "idle" => poll.msg = delivered /\ 1 <= delivered
  /\ delivered = -1 => buffered_messages = <<>>
  /\ snapshot # <<>> => snapshot[1] \in Object

(* A thread publishes under the lock: the log of the master is what was         *)
(* published, and what the one such thread is about to.                         *)
OrderInv ==
  /\ \A t \in ServerThread : server[t].pc = "publish" => query_obj_rwlock = t
  /\ PublishedInOrder

(* Versions count updates; a snapshot is a prefix of what was published.        *)
VersionInv ==
  /\ master.version = Len(master.log)
  /\ "stale version" \notin races =>
       \A i \in 1..Len(published) : published[i].version = i - 1
  /\ snapshot # <<>> => /\ snapshot[1].version <= Len(published)
                        /\ snapshot[1].log = Log(published, snapshot[1].version)

(* Where the replica is in start(), and what it waits for.                      *)
StartInv ==
  /\ start_at = "request" => snapshot = <<>>
  /\ \/ start_at \in {"request", "wait", "failed"} /\ waiting_for_snapshot
     \/ /\ start_at \in {"deserialize", "version", "playback", "serving"}
        /\ ~waiting_for_snapshot /\ snapshot # <<>>
  /\ start_at \notin {"playback", "serving"} => playback = 1

(* The messages the replica has buffered or applied are those up to Handled; it *)
(* knows of those up to Known(Handled).                                         *)
Handled == IF poll.pc = "idle" THEN delivered ELSE delivered - 1
Known(n) == IF n > snapshot[1].version THEN n ELSE snapshot[1].version
Contents(n) == replica.log = Log(published, n) /\ replica.version = n
Before == Handled - Len(buffered_messages)
Collecting ==
  \/ start_at \notin {"playback", "serving"}
  \/ start_at = "playback" /\ playback <= Len(buffered_messages)

(* Unless a race happened: while messages are collected, the buffer holds the   *)
(* last ones handled, without a gap to the snapshot ...                         *)
BufferInv ==
  Collecting =>
    /\ \A k \in 1..Len(buffered_messages) : buffered_messages[k] = published[Before + k]
    /\ buffered_messages # <<>> => 0 <= Before
    /\ snapshot # <<>> => Before <= snapshot[1].version

(* ... a message to be applied is newer than the snapshot ...                   *)
ApplyInv == poll.pc = "update" => ~waiting_for_snapshot /\ snapshot[1].version < delivered

(* ... and the replica holds what the snapshot and the messages played back, or *)
(* applied, make up.                                                            *)
ContentsInv ==
  /\ start_at = "version" => replica.log = snapshot[1].log
  /\ start_at = "playback" /\ Collecting => Contents(Known(Before + playback - 1))
  /\ start_at = "playback" /\ ~Collecting => Contents(Known(Handled))
  /\ start_at = "serving" => Contents(Known(Handled))

FollowInv == races = {} => BufferInv /\ ApplyInv /\ ContentsInv

QueryInv == QueryShape /\ OrderInv /\ VersionInv /\ StartInv /\ FollowInv
-----------------------------------------------------------------------------
\* One more message makes one more update.
LEMMA LogType ==
  ASSUME NEW messages \in Seq(Update), NEW n \in 0..Len(messages)
  PROVE  Log(messages, n) \in Seq(Nat) /\ Len(Log(messages, n)) = n
<1>1. \A i \in 1..n : messages[i].msg \in Nat
  <2>1. \A i \in 1..n : i \in 1..Len(messages)
    OBVIOUS
  <2>2. \A i \in 1..n : messages[i] \in Update
    BY <2>1, ElementOfSeq
  <2> QED BY <2>2 DEF Update
<1>2. n \in Nat
  OBVIOUS
<1>3. Log(messages, n) \in [1..n -> Nat]
  BY <1>1, Zenon DEF Log
<1>4. Log(messages, n) \in Seq(Nat)
  <2>1. Seq(Nat) = UNION {[1..k -> Nat] : k \in Nat}
    BY SeqDef
  <2>2. [1..n -> Nat] \in {[1..k -> Nat] : k \in Nat}
    BY <1>2, Zenon
  <2> QED BY <1>3, <2>1, <2>2, Zenon
<1>5. 1..Len(Log(messages, n)) = 1..n /\ Len(Log(messages, n)) \in Nat
  BY <1>3, <1>4, LenProperties
<1> QED
  BY <1>2, <1>4, <1>5

LEMMA LogAppend ==
  ASSUME NEW messages \in Seq(Update), NEW m \in Update
  PROVE  /\ \A n \in 0..Len(messages) : Log(Append(messages, m), n) = Log(messages, n)
         /\ Log(Append(messages, m), Len(messages) + 1) = Append(Log(messages, Len(messages)), m.msg)
<1>1. \A i \in 1..Len(messages) : Append(messages, m)[i] = messages[i]
  OBVIOUS
<1>2. Append(messages, m)[Len(messages) + 1] = m
  OBVIOUS
<1>3. ASSUME NEW n \in 0..Len(messages) PROVE Log(Append(messages, m), n) = Log(messages, n)
  <2>1. 1..n \subseteq 1..Len(messages)
    OBVIOUS
  <2> QED BY <1>1, <2>1, Zenon DEF Log
<1>4. Log(Append(messages, m), Len(messages) + 1) = Append(Log(messages, Len(messages)), m.msg)
  <2>1. /\ Log(messages, Len(messages)) \in Seq(Nat)
        /\ Len(Log(messages, Len(messages))) = Len(messages)
    BY LogType
  <2> QED BY <1>1, <1>2, <2>1 DEF Log, Update
<1> QED
  BY <1>3, <1>4

LEMMA LogNext ==
  ASSUME NEW messages \in Seq(Update), NEW n \in 0..(Len(messages) - 1)
  PROVE  Log(messages, n + 1) = Append(Log(messages, n), messages[n + 1].msg)
  BY DEF Log, Update

LEMMA QueryInitInv == QueryInit => QueryInv
<1> SUFFICES ASSUME QueryInit PROVE QueryInv
  OBVIOUS
<1>1. QueryShape
  BY DEF QueryInit, QueryShape, Fresh, Object, Update
<1>2. OrderInv
  BY DEF QueryInit, OrderInv, PublishedInOrder, Fresh
<1>3. VersionInv /\ StartInv
  BY DEF QueryInit, VersionInv, StartInv, Fresh
<1>4. FollowInv
  BY DEF QueryInit, FollowInv, BufferInv, ApplyInv, ContentsInv, Collecting, Before, Handled
<1> QED
  BY <1>1, <1>2, <1>3, <1>4 DEF QueryInv

\* What belongs to the master changes only in master_reply_callback.
LEMMA MasterSteps ==
  ASSUME [QueryNext]_queryVars
  PROVE  \/ \E t \in ServerThread : ReadVersion(t) \/ master_reply_callback(t) \/ Publish(t)
         \/ UNCHANGED masterVars
  BY Zenon DEF QueryNext, queryVars, masterVars, Serialize, Subscribed, Request, RequestFails,
     SnapshotArrives, deserialize, SetVersion, playback_recorded_messages, PlaybackEnds,
     subscribe_callback, BufferMessage, ApplyMessage

LEMMA LogAll ==
  ASSUME NEW messages \in Seq(Update)
  PROVE  /\ Log(messages, Len(messages)) \in Seq(Nat)
         /\ Len(Log(messages, Len(messages))) = Len(messages)
<1>1. Len(messages) \in 0..Len(messages)
  OBVIOUS
<1> QED
  BY <1>1, LogType

\* PublishedInOrder in terms of Log.
InLogOrder ==
  \/ /\ \A t \in ServerThread : server[t].pc # "publish"
     /\ master.log = Log(published, Len(published))
  \/ \E t \in ServerThread : /\ server[t].pc = "publish"
                             /\ master.log = Append(Log(published, Len(published)), server[t].msg)

LEMMA InOrder == PublishedInOrder <=> InLogOrder
  BY Zenon DEF InLogOrder, PublishedInOrder, Log

\* Every step keeps the order of publication.
LEMMA OrderKept ==
  ASSUME QueryInv, [QueryNext]_queryVars
  PROVE  OrderInv'
<1> USE QueryAssumption DEF QueryInv, QueryShape, OrderInv, Object, InLogOrder
<1>0. PublishedInOrder' <=> InLogOrder'
  BY Zenon DEF InLogOrder, PublishedInOrder, Log
<1>1. ASSUME NEW t \in ServerThread, ReadVersion(t) PROVE OrderInv'
  BY <1>1, <1>0, InOrder DEF ReadVersion
<1>2. ASSUME NEW t \in ServerThread, master_reply_callback(t) PROVE OrderInv'
  <2>1. \A u \in ServerThread : server[u].pc # "publish"
    BY <1>2 DEF master_reply_callback
  <2>2. master.log = Log(published, Len(published))
    BY <2>1, InOrder
  <2>3. CASE server' = [server EXCEPT ![t].pc = "publish"] /\ query_obj_rwlock' = t
             /\ master'.log = Append(master.log, server[t].msg)
    <3>1. server'[t].pc = "publish" /\ server'[t].msg = server[t].msg
      BY <2>3
    <3>2. published' = published
      BY <1>2 DEF master_reply_callback
    <3>3. InLogOrder'
      BY <2>2, <2>3, <3>1, <3>2
    <3> QED
      BY <1>0, <2>1, <2>3, <3>3
  <2>4. CASE server' = [server EXCEPT ![t].pc = "idle"] /\ UNCHANGED <<master, query_obj_rwlock>>
    <3>1. \A u \in ServerThread : server'[u].pc # "publish"
      BY <2>1, <2>4
    <3>2. published' = published
      BY <1>2 DEF master_reply_callback
    <3> QED
      BY <1>0, <2>2, <2>4, <3>1, <3>2
  <2>5. \/ /\ master' = process_message(master, server[t].msg) /\ query_obj_rwlock' = t
           /\ server' = [server EXCEPT ![t].pc = "publish"]
        \/ server' = [server EXCEPT ![t].pc = "idle"] /\ UNCHANGED <<master, query_obj_rwlock>>
    BY <1>2, Zenon DEF master_reply_callback, LockKept
  <2>6. process_message(master, server[t].msg).log = Append(master.log, server[t].msg)
    BY DEF process_message
  <2> QED
    BY <2>3, <2>4, <2>5, <2>6, Zenon
<1>3. ASSUME NEW t \in ServerThread, Publish(t) PROVE OrderInv'
  <2>1. \A u \in ServerThread : server'[u].pc # "publish"
    BY <1>3 DEF Publish
  <2>2. master.log = Append(Log(published, Len(published)), server[t].msg)
    BY <1>3, InOrder DEF Publish
  <2>3. [version |-> server[t].version, msg |-> server[t].msg] \in Update
    BY DEF Update
  <2>4. published' = Append(published, [version |-> server[t].version, msg |-> server[t].msg])
    BY <1>3 DEF Publish
  <2>5. Log(published', Len(published) + 1) = Append(Log(published, Len(published)), server[t].msg)
    BY <2>3, <2>4, LogAppend
  <2>6. Len(published') = Len(published) + 1
    BY <2>3, <2>4
  <2>a. master' = master
    BY <1>3 DEF Publish
  <2>7. master'.log = Log(published', Len(published'))
    BY <2>2, <2>5, <2>6, <2>a
  <2>8. InLogOrder'
    BY <2>1, <2>7, Zenon
  <2> QED
    BY <1>0, <2>1, <2>8, Zenon
<1>4. CASE UNCHANGED masterVars
  BY <1>4, <1>0, InOrder DEF masterVars
<1> QED
  BY <1>1, <1>2, <1>3, <1>4, MasterSteps

\* Every step of start() is taken in its place.
LEMMA StartKept ==
  ASSUME QueryInv, [QueryNext]_queryVars
  PROVE  StartInv'
<1> USE DEF QueryInv, StartInv, Start
<1>1. CASE UNCHANGED <<start_at, waiting_for_snapshot, playback, snapshot>>
  BY <1>1
<1>2. CASE Serialize
  BY <1>2 DEF Serialize, replicaVars
<1>3. CASE Request \/ RequestFails \/ SnapshotArrives
  BY <1>3 DEF Request, RequestFails, SnapshotArrives
<1>4. CASE deserialize \/ SetVersion
  BY <1>4 DEF deserialize, SetVersion
<1>5. CASE playback_recorded_messages \/ PlaybackEnds
  BY <1>5 DEF playback_recorded_messages, PlaybackEnds
<1>6. CASE Subscribed \/ subscribe_callback \/ BufferMessage \/ ApplyMessage
  BY <1>1, <1>6, Zenon DEF Subscribed, subscribe_callback, BufferMessage, ApplyMessage, replicaVars
<1>7. CASE \E t \in ServerThread : ReadVersion(t) \/ master_reply_callback(t) \/ Publish(t)
  BY <1>1, <1>7, Zenon DEF ReadVersion, master_reply_callback, Publish, replicaVars
<1>8. CASE UNCHANGED queryVars
  BY <1>1, <1>8, Zenon DEF queryVars
<1> QED
  BY <1>2, <1>3, <1>4, <1>5, <1>6, <1>7, <1>8 DEF QueryNext

\* An update makes an object of an object.
LEMMA ProcessType ==
  ASSUME NEW qobj \in Object, NEW msg \in Nat
  PROVE  process_message(qobj, msg) \in Object
  BY DEF Object, process_message

\* Every step keeps the shape.
LEMMA ShapeKept ==
  ASSUME QueryInv, [QueryNext]_queryVars
  PROVE  QueryShape'
<1> USE DEF QueryInv, QueryShape, StartInv, Start, masterVars, replicaVars
<1>1. ASSUME NEW t \in ServerThread, ReadVersion(t) PROVE QueryShape'
  BY <1>1 DEF ReadVersion, Object
<1>2. ASSUME NEW t \in ServerThread, master_reply_callback(t) PROVE QueryShape'
  <2>1. master' \in Object
    BY <1>2, ProcessType DEF master_reply_callback
  <2>2. server' \in [ServerThread -> [pc : {"idle", "lock", "publish"}, version : Nat, msg : Nat]]
    <3>1. PICK pc \in {"idle", "publish"} : server' = [server EXCEPT ![t].pc = pc]
      BY <1>2, Zenon DEF master_reply_callback
    <3> QED BY <3>1
  <2>3. UNCHANGED <<taken, published, delivered, replicaVars, snapshot>>
    BY <1>2, Zenon DEF master_reply_callback
  <2> QED
    BY <2>1, <2>2, <2>3
<1>3. ASSUME NEW t \in ServerThread, Publish(t) PROVE QueryShape'
  <2>1. [version |-> server[t].version, msg |-> server[t].msg] \in Update
    BY DEF Update
  <2>2. published' = Append(published, [version |-> server[t].version, msg |-> server[t].msg])
    BY <1>3, Zenon DEF Publish
  <2>a. published' \in Seq(Update) /\ Len(published') = Len(published) + 1
    BY <2>1, <2>2
  <2>3. server' \in [ServerThread -> [pc : {"idle", "lock", "publish"}, version : Nat, msg : Nat]]
    BY <1>3 DEF Publish
  <2>4. UNCHANGED <<master, taken, delivered, replicaVars, snapshot>>
    BY <1>3, Zenon DEF Publish
  <2> QED
    BY <2>a, <2>3, <2>4
<1>4. CASE Serialize
  BY <1>4 DEF Serialize
<1>5. CASE Subscribed
  <2>1. /\ UNCHANGED <<masterVars, replicaVars, snapshot>>
        /\ delivered = -1 /\ delivered' = Len(published)
    BY <1>5, Zenon DEF Subscribed
  <2> QED
    BY <2>1
<1>6. CASE Request \/ RequestFails \/ SnapshotArrives
  BY <1>6 DEF Request, RequestFails, SnapshotArrives
<1>7. CASE deserialize
  BY <1>7 DEF deserialize, Object
<1>8. CASE SetVersion
  BY <1>8 DEF SetVersion, Object
<1>9. CASE playback_recorded_messages
  <2>1. buffered_messages[playback].msg \in Nat
    <3>1. playback \in 1..Len(buffered_messages)
      BY <1>9 DEF playback_recorded_messages
    <3>2. buffered_messages[playback] \in Update
      BY <3>1, ElementOfSeq
    <3> QED BY <3>2 DEF Update
  <2>2. replica' \in Object
    BY <1>9, <2>1, ProcessType DEF playback_recorded_messages
  <2>3. /\ playback' = playback + 1
        /\ UNCHANGED <<masterVars, delivered, buffered_messages, poll, snapshot>>
    BY <1>9, Zenon DEF playback_recorded_messages
  <2> QED
    BY <2>2, <2>3
<1>10. CASE PlaybackEnds
  BY <1>10 DEF PlaybackEnds
<1>11. CASE subscribe_callback
  <2>1. /\ poll' \in [pc : {"idle", "buffer", "update"}, msg : Nat]
        /\ delivered # -1 /\ delivered < Len(published)
        /\ delivered' = delivered + 1 /\ poll'.msg = delivered + 1
    <3>1. PICK pc \in {"buffer", "update"} : poll' = [pc |-> pc, msg |-> delivered + 1]
      BY <1>11, Zenon DEF subscribe_callback
    <3>2. /\ delivered # -1 /\ delivered < Len(published)
          /\ delivered' = delivered + 1
      BY <1>11, Zenon DEF subscribe_callback
    <3> QED BY <3>1, <3>2
  <2>2. UNCHANGED <<masterVars, replica, buffered_messages, playback, snapshot>>
    BY <1>11, Zenon DEF subscribe_callback
  <2> QED
    BY <2>1, <2>2
<1>12. CASE BufferMessage
  <2>1. published[poll.msg] \in Update
    BY <1>12, ElementOfSeq DEF BufferMessage
  <2>2. buffered_messages' \in Seq(Update)
    BY <1>12, <2>1 DEF BufferMessage
  <2>3. /\ poll' = [poll EXCEPT !.pc = "idle"] /\ delivered >= 1
        /\ UNCHANGED <<masterVars, delivered, replica, playback, snapshot>>
    BY <1>12 DEF BufferMessage
  <2> QED
    BY <2>2, <2>3
<1>13. CASE ApplyMessage
  <2>1. published[poll.msg].msg \in Nat
    <3>1. published[poll.msg] \in Update
      BY <1>13, ElementOfSeq DEF ApplyMessage
    <3> QED BY <3>1 DEF Update
  <2>2. replica' \in Object
    BY <1>13, <2>1, ProcessType DEF ApplyMessage
  <2>3. /\ poll' = [poll EXCEPT !.pc = "idle"]
        /\ UNCHANGED <<masterVars, delivered, buffered_messages, playback, snapshot>>
    BY <1>13, Zenon DEF ApplyMessage
  <2> QED
    BY <2>2, <2>3
<1>14. CASE UNCHANGED queryVars
  BY <1>14 DEF queryVars
<1> QED
  BY <1>1, <1>2, <1>3, <1>4, <1>5, <1>6, <1>7, <1>8, <1>9, <1>10, <1>11, <1>12, <1>13, <1>14
     DEF QueryNext

\* A snapshot is taken between two publications, and holds all that was published.
LEMMA SerializesAll ==
  ASSUME QueryInv, Serialize
  PROVE  /\ snapshot'[1] = master /\ master.log = Log(published, Len(published))
         /\ master.version = Len(published) /\ Len(published) \in Nat
<1>1. \A t \in ServerThread : server[t].pc # "publish"
  BY QueryAssumption DEF Serialize, QueryInv, OrderInv
<1>2. master.log = Log(published, Len(published))
  BY <1>1, InOrder DEF InLogOrder, QueryInv, OrderInv
<1>3. published \in Seq(Update) /\ master.version = Len(master.log)
  BY DEF QueryInv, QueryShape, VersionInv
<1>4. Len(master.log) = Len(published) /\ Len(published) \in Nat
  BY <1>2, <1>3, LogAll
<1>5. snapshot' = <<master>>
  BY Zenon DEF Serialize
<1> QED
  BY <1>2, <1>3, <1>4, <1>5

\* Every step keeps the meaning of versions.
LEMMA VersionKept ==
  ASSUME QueryInv, [QueryNext]_queryVars
  PROVE  VersionInv'
<1>a. /\ master \in Object /\ published \in Seq(Update)
      /\ server \in [ServerThread -> [pc : {"idle", "lock", "publish"}, version : Nat, msg : Nat]]
      /\ snapshot # <<>> => snapshot[1] \in Object
  BY DEF QueryInv, QueryShape
<1>b. VersionInv /\ OrderInv
  BY DEF QueryInv
<1>c. master.version = Len(master.log)
  BY <1>b, Zenon DEF VersionInv
<1>d. snapshot # <<>> => /\ snapshot[1].version <= Len(published)
                         /\ snapshot[1].log = Log(published, snapshot[1].version)
  BY <1>b, Zenon DEF VersionInv
<1>1. CASE UNCHANGED <<master, published, snapshot>> /\ races \subseteq races'
  BY <1>b, <1>1 DEF VersionInv
<1>2. ASSUME NEW t \in ServerThread, master_reply_callback(t) PROVE VersionInv'
  <2>1. UNCHANGED <<published, snapshot, races>>
    BY <1>2, Zenon DEF master_reply_callback
  <2>2. master' = master \/ master' = process_message(master, server[t].msg)
    BY <1>2, Zenon DEF master_reply_callback
  <2>3. server[t].msg \in Nat
    BY <1>a
  <2>4. master'.version = Len(master'.log)
    BY <1>a, <1>c, <2>2, <2>3 DEF process_message, Object
  <2> QED BY <1>b, <2>1, <2>4 DEF VersionInv
<1>3. ASSUME NEW t \in ServerThread, Publish(t) PROVE VersionInv'
  <2> DEFINE new == [version |-> server[t].version, msg |-> server[t].msg]
  <2>1. published' = Append(published, new) /\ UNCHANGED <<master, snapshot>>
    BY <1>3, Zenon DEF Publish
  <2>2. new \in Update /\ server[t].msg \in Nat /\ new.version = server[t].version
    BY <1>a DEF Update
  <2> HIDE DEF new
  <2>3. Len(master.log) = Len(published) + 1
    <3>1. master.log = Append(Log(published, Len(published)), server[t].msg)
      BY <1>3, <1>b, InOrder DEF Publish, InLogOrder, OrderInv
    <3> QED BY <1>a, <2>2, <3>1, LogAll
  <2>4. Len(published') = Len(published) + 1 /\ Len(published) \in Nat
    BY <1>a, <2>1, <2>2
  <2>5. ASSUME "stale version" \notin races', NEW i \in 1..Len(published')
        PROVE  published'[i].version = i - 1
    <3>1. "stale version" \notin races /\ server[t].version = master.version - 1
      BY <1>3, <2>5, Zenon DEF Publish, Race
    <3>2. CASE i = Len(published) + 1
      <4>1. published'[i] = new
        BY <1>a, <2>1, <2>2, <3>2
      <4> QED BY <1>b, <2>2, <2>3, <2>4, <3>1, <3>2, <4>1 DEF VersionInv
    <3>3. CASE i \in 1..Len(published)
      <4>1. published'[i] = published[i]
        BY <1>a, <2>1, <2>2, <3>3
      <4> QED BY <1>b, <3>1, <3>3, <4>1 DEF VersionInv
    <3> QED BY <2>4, <3>2, <3>3
  <2>6. ASSUME snapshot # <<>>
        PROVE  /\ snapshot[1].version <= Len(published')
               /\ snapshot[1].log = Log(published', snapshot[1].version)
    <3>1. snapshot[1].version \in Nat
      BY <1>a, <2>6 DEF Object
    <3>2. snapshot[1].version \in 0..Len(published)
      BY <1>d, <2>6, <2>4, <3>1
    <3>3. Log(published', snapshot[1].version) = Log(published, snapshot[1].version)
      BY <1>a, <2>1, <2>2, <3>2, LogAppend
    <3> QED BY <1>d, <2>4, <2>6, <3>2, <3>3
  <2> QED BY <1>b, <2>1, <2>5, <2>6 DEF VersionInv
<1>4. CASE Serialize
  <2>1. /\ snapshot'[1] = master /\ master.log = Log(published, Len(published))
        /\ master.version = Len(published) /\ Len(published) \in Nat
    BY <1>4, SerializesAll
  <2>2. UNCHANGED <<master, published, races>>
    BY <1>4, Zenon DEF Serialize, masterVars
  <2>3. snapshot'[1].version <= Len(published) /\ snapshot'[1].log = Log(published, snapshot'[1].version)
    BY <2>1
  <2> QED BY <1>b, <2>2, <2>3, Zenon DEF VersionInv
<1>5. CASE \E t \in ServerThread : ReadVersion(t)
  BY <1>1, <1>5, Zenon DEF ReadVersion
<1>6. CASE Request \/ RequestFails \/ SnapshotArrives \/ deserialize \/ SetVersion
           \/ playback_recorded_messages \/ PlaybackEnds
  BY <1>1, <1>6, Zenon DEF Request, RequestFails, SnapshotArrives, deserialize, SetVersion,
     playback_recorded_messages, PlaybackEnds, masterVars
<1>7. CASE Subscribed \/ subscribe_callback \/ BufferMessage \/ ApplyMessage
  BY <1>1, <1>7, Zenon DEF Subscribed, subscribe_callback, BufferMessage, ApplyMessage,
     masterVars, Race
<1>8. CASE UNCHANGED queryVars
  BY <1>1, <1>8, Zenon DEF queryVars
<1> QED
  BY <1>2, <1>3, <1>4, <1>5, <1>6, <1>7, <1>8 DEF QueryNext

\* Facts on the numbers that the next lemmas use.
LEMMA Numbers ==
  ASSUME QueryShape
  PROVE  /\ Handled \in Int /\ -1 <= Handled /\ Handled <= delivered /\ Handled <= Len(published)
         /\ poll.pc = "idle" => Handled = delivered
         /\ poll.pc # "idle" => Handled = delivered - 1 /\ 0 <= Handled
         /\ Len(buffered_messages) \in Nat /\ Len(published) \in Nat
         /\ Before = Handled - Len(buffered_messages)
         /\ snapshot # <<>> => snapshot[1].version \in Nat
  BY DEF QueryShape, Handled, Before, Object

\* What the replica knows of has been published.
LEMMA KnownPublished ==
  ASSUME QueryShape, VersionInv, snapshot # <<>>
  PROVE  /\ Known(Handled) \in 0..Len(published)
         /\ Collecting /\ start_at = "playback" => Known(Before + playback - 1) \in 0..Len(published)
<1>a. snapshot[1].version <= Len(published)
  BY Zenon DEF VersionInv
<1>1. snapshot[1].version \in 0..Len(published)
  BY <1>a, Numbers
<1>2. Known(Handled) \in 0..Len(published)
  BY <1>1, Numbers DEF Known
<1>3. ASSUME Collecting, start_at = "playback"
      PROVE  Before + playback - 1 \in Int /\ Before + playback - 1 <= Len(published)
  <2>1. playback <= Len(buffered_messages)
    BY <1>3, Zenon DEF Collecting
  <2>2. playback \in Nat
    BY DEF QueryShape
  <2> QED BY <2>1, <2>2, Numbers
<1> QED
  BY <1>1, <1>2, <1>3 DEF Known

\* A new message leaves what the replica holds in line with the master.
LEMMA FollowPublish ==
  ASSUME QueryInv, NEW t \in ServerThread, Publish(t)
  PROVE  FollowInv'
<1> SUFFICES ASSUME races' = {} PROVE BufferInv' /\ ApplyInv' /\ ContentsInv'
  BY DEF FollowInv
<1>1. BufferInv /\ ApplyInv /\ ContentsInv
  BY Zenon DEF Publish, Race, QueryInv, FollowInv
<1> DEFINE new == [version |-> server[t].version, msg |-> server[t].msg]
<1>2. published' = Append(published, new) /\ UNCHANGED <<delivered, replicaVars, snapshot>>
  BY Zenon DEF Publish
<1>3. new \in Update /\ published \in Seq(Update)
  BY DEF QueryInv, QueryShape, Update
<1> HIDE DEF new
<1>4. UNCHANGED <<Handled, Before, Collecting>>
  BY <1>2, Zenon DEF Handled, Before, Collecting, replicaVars
<1>5. \A n : Known(n)' = Known(n)
  BY <1>2, Zenon DEF Known
<1>6. ASSUME NEW n \in 0..Len(published), Contents(n) PROVE Contents(n)'
  BY <1>2, <1>3, <1>6, LogAppend DEF Contents, replicaVars
<1>7. ASSUME NEW k \in 1..Len(buffered_messages), Collecting
      PROVE  buffered_messages[k] = published'[Before + k]
  <2>1. buffered_messages[k] = published[Before + k] /\ 0 <= Before
    BY <1>1, <1>7 DEF BufferInv
  <2>2. Before + k \in 1..Len(published)
    BY <2>1, Numbers DEF QueryInv
  <2> QED BY <1>2, <1>3, <2>1, <2>2
<1>8. BufferInv'
  BY <1>1, <1>2, <1>4, <1>7, Zenon DEF BufferInv, replicaVars
<1>9. ApplyInv'
  BY <1>1, <1>2, Zenon DEF ApplyInv, replicaVars
<1>10. ContentsInv'
  <2>1. start_at \in {"playback", "serving"} => snapshot # <<>>
    BY DEF QueryInv, StartInv
  <2>2. start_at = "playback" /\ Collecting => Contents(Known(Before + playback - 1))'
    BY <1>1, <1>2, <1>4, <1>5, <1>6, <2>1, KnownPublished DEF QueryInv, ContentsInv, replicaVars
  <2>3. (start_at = "playback" /\ ~Collecting) \/ start_at = "serving" => Contents(Known(Handled))'
    BY <1>1, <1>4, <1>5, <1>6, <2>1, KnownPublished DEF QueryInv, ContentsInv
  <2> QED BY <1>1, <1>2, <1>4, <2>2, <2>3, Zenon DEF ContentsInv, replicaVars
<1> QED
  BY <1>8, <1>9, <1>10

\* A race that happened is remembered.
LEMMA RacesStay ==
  ASSUME [QueryNext]_queryVars
  PROVE  races \subseteq races'
  BY Zenon DEF QueryNext, queryVars, ReadVersion, master_reply_callback, Publish, Serialize,
     Subscribed, Request, RequestFails, SnapshotArrives, deserialize, SetVersion,
     playback_recorded_messages, PlaybackEnds, subscribe_callback, BufferMessage, ApplyMessage, Race

\* start() keeps the replica in line with the master until it plays messages back.
LEMMA FollowStart ==
  ASSUME QueryInv, BufferInv, ApplyInv, ContentsInv,
         \/ Serialize \/ Request \/ RequestFails \/ SnapshotArrives \/ deserialize \/ SetVersion
  PROVE  BufferInv' /\ ApplyInv' /\ ContentsInv'
<1> USE DEF Start
<1>a. QueryShape /\ VersionInv /\ StartInv
  BY DEF QueryInv
<1>1. /\ UNCHANGED <<published, delivered, buffered_messages, playback, poll>>
      /\ UNCHANGED <<Handled, Before>>
  BY Zenon DEF Serialize, Request, RequestFails, SnapshotArrives, deserialize, SetVersion,
     masterVars, replicaVars, Handled, Before
<1>2. Collecting
  BY Zenon DEF Serialize, Request, RequestFails, SnapshotArrives, deserialize, SetVersion, Collecting
<1>3. CASE Serialize
  <2>1. Before <= snapshot'[1].version
    BY <1>3, <1>a, SerializesAll, Numbers
  <2>2. start_at = "wait" /\ UNCHANGED <<start_at, waiting_for_snapshot>>
    BY <1>3, Zenon DEF Serialize, replicaVars
  <2>3. poll.pc # "update"
    BY <1>a, <2>2 DEF ApplyInv, StartInv
  <2> QED BY <1>1, <1>2, <2>1, <2>2, <2>3 DEF BufferInv, ApplyInv, ContentsInv
<1>4. CASE Request \/ RequestFails \/ SnapshotArrives
  <2>1. /\ start_at \in {"request", "wait"} /\ start_at' \in {"wait", "failed", "deserialize"}
        /\ UNCHANGED snapshot
    BY <1>4 DEF Request, RequestFails, SnapshotArrives
  <2>2. poll.pc # "update"
    BY <1>a, <2>1 DEF ApplyInv, StartInv
  <2>3. BufferInv'
    BY <1>1, <1>2, <2>1 DEF BufferInv
  <2> QED BY <1>1, <2>1, <2>2, <2>3 DEF ApplyInv, ContentsInv
<1>5. CASE deserialize
  <2>1. start_at' = "version" /\ UNCHANGED <<waiting_for_snapshot, snapshot>>
    BY <1>5, Zenon DEF deserialize
  <2>2. replica'.log = snapshot[1].log
    BY <1>5, <1>a DEF deserialize, QueryShape, Object
  <2> QED BY <1>1, <1>2, <2>1, <2>2 DEF BufferInv, ApplyInv, ContentsInv
<1>6. CASE SetVersion
  <2>1. /\ start_at = "version" /\ start_at' = "playback"
        /\ UNCHANGED <<waiting_for_snapshot, snapshot>>
    BY <1>6, Zenon DEF SetVersion
  <2>2. snapshot # <<>> /\ playback = 1
    BY <1>a, <2>1 DEF StartInv
  <2>3. replica'.log = snapshot[1].log /\ replica'.version = snapshot[1].version
    BY <1>6, <1>a, <2>1 DEF SetVersion, QueryShape, Object, ContentsInv
  <2>4. Contents(snapshot[1].version)'
    BY <1>1, <1>a, <2>1, <2>2, <2>3 DEF Contents, VersionInv
  <2>5. Before <= snapshot[1].version /\ snapshot[1].version \in Nat /\ Before \in Int
    BY <1>a, <1>2, <2>2, Numbers DEF BufferInv
  <2>6. Known(Before + playback - 1) = snapshot[1].version
    BY <2>2, <2>5 DEF Known
  <2>7. ~Collecting' => Known(Handled) = snapshot[1].version
    <3>1. ~Collecting' => Len(buffered_messages) = 0
      BY <1>1, <1>a, <2>1, <2>2, Numbers DEF Collecting
    <3> QED BY <1>a, <2>5, <3>1, Numbers DEF Known
  <2>8. \A n : Known(n)' = Known(n)
    BY <2>1, Zenon DEF Known
  <2>9. ContentsInv'
    BY <1>1, <2>1, <2>4, <2>6, <2>7, <2>8 DEF ContentsInv
  <2> QED BY <1>1, <1>2, <2>1, <2>9 DEF BufferInv, ApplyInv
<1> QED
  BY <1>3, <1>4, <1>5, <1>6

\* Playing back one message adds the update it carries, unless the snapshot has it.
LEMMA FollowPlayback ==
  ASSUME QueryInv, BufferInv, ApplyInv, ContentsInv, races = {}, playback_recorded_messages
  PROVE  BufferInv' /\ ApplyInv' /\ ContentsInv'
<1>a. QueryShape /\ VersionInv /\ StartInv
  BY DEF QueryInv
<1>1. /\ start_at = "playback" /\ playback <= Len(buffered_messages) /\ playback' = playback + 1
      /\ UNCHANGED <<published, delivered, buffered_messages, poll, snapshot>>
      /\ UNCHANGED <<start_at, waiting_for_snapshot, Handled, Before>>
  BY Zenon DEF playback_recorded_messages, masterVars, Handled, Before
<1>2. Collecting /\ playback \in 1..Len(buffered_messages) /\ snapshot # <<>>
  BY <1>1, <1>a, Numbers DEF Collecting, QueryShape, StartInv
<1> DEFINE i == Before + playback
<1>3. i \in 1..Len(published) /\ snapshot[1].version \in Nat /\ Before \in Int /\ 0 <= Before
  BY <1>a, <1>2, Numbers DEF BufferInv
<1>4. buffered_messages[playback] = published[i] /\ published[i].version = i - 1
  BY <1>a, <1>2, <1>3 DEF BufferInv, VersionInv
<1>5. Contents(Known(i - 1))
  <2>1. Contents(Known(Before + playback - 1))
    BY <1>1, <1>2, Zenon DEF ContentsInv
  <2>2. Before + playback - 1 = i - 1
    BY <1>2, <1>3
  <2> QED BY <2>1, <2>2, Zenon
<1>6. replica'.log = Log(published, Known(i)) /\ replica'.version = Known(i)
  <2>1. replica' = IF NotInSnapshot(i - 1) THEN process_message(replica, published[i].msg) ELSE replica
    BY <1>4, Zenon DEF playback_recorded_messages
  <2>2. CASE i - 1 < snapshot[1].version
    <3>1. Known(i) = snapshot[1].version /\ Known(i - 1) = snapshot[1].version
      BY <1>3, <2>2 DEF Known
    <3>2. replica' = replica
      BY <1>3, <1>5, <2>1, <2>2, <3>1 DEF Contents, NotInSnapshot
    <3> QED BY <1>5, <3>1, <3>2, Zenon DEF Contents
  <2>3. CASE snapshot[1].version <= i - 1
    <3>1. Known(i) = i /\ Known(i - 1) = i - 1
      BY <1>3, <2>3 DEF Known
    <3>2. replica' = process_message(replica, published[i].msg)
      BY <1>3, <1>5, <2>1, <3>1 DEF Contents, NotInSnapshot
    <3>3. Log(published, i) = Append(Log(published, i - 1), published[i].msg)
      <4>1. i - 1 \in 0..(Len(published) - 1) /\ (i - 1) + 1 = i /\ published \in Seq(Update)
        BY <1>3, <1>a DEF QueryShape
      <4> HIDE DEF i
      <4> QED BY <4>1, LogNext
    <3>4. replica'.log = Append(replica.log, published[i].msg) /\ replica'.version = replica.version + 1
      BY <3>2 DEF process_message
    <3>5. replica.log = Log(published, i - 1) /\ replica.version = i - 1
      BY <1>5, <3>1, Zenon DEF Contents
    <3> HIDE DEF i
    <3> QED BY <1>3, <3>1, <3>3, <3>4, <3>5
  <2> QED BY <1>3, <2>2, <2>3
<1>7. ContentsInv'
  <2>1. (Before + playback - 1)' = i
    BY <1>1, <1>2, <1>3
  <2>2. ~Collecting' => Handled' = i
    BY <1>1, <1>2, <1>a, Numbers DEF Collecting
  <2>4. start_at' = "playback"
    BY <1>1
  <2>5. Contents(Known(Before + playback - 1))'
    BY <1>1, <1>6, <2>1 DEF Contents, Known
  <2>6. ~Collecting' => Contents(Known(Handled))'
    BY <1>1, <1>6, <2>2 DEF Contents, Known
  <2> QED BY <2>4, <2>5, <2>6 DEF ContentsInv
<1> QED
  BY <1>1, <1>2, <1>7 DEF BufferInv, ApplyInv

\* So do the steps of the poll thread and the end of the playback.
LEMMA FollowPoll ==
  ASSUME QueryInv, BufferInv, ApplyInv, ContentsInv, races' = {},
         Subscribed \/ PlaybackEnds \/ subscribe_callback \/ BufferMessage \/ ApplyMessage
  PROVE  BufferInv' /\ ApplyInv' /\ ContentsInv'
<1>a. QueryShape /\ VersionInv /\ StartInv
  BY DEF QueryInv
<1>b. /\ playback \in Nat \ {0} /\ delivered \in Int
      /\ published \in Seq(Update) /\ buffered_messages \in Seq(Update)
  BY <1>a DEF QueryShape
<1>1. CASE Subscribed
  <2>1. /\ delivered = -1 /\ delivered' = Len(published)
        /\ snapshot # <<>> => ~(Len(published) > snapshot[1].version)
        /\ UNCHANGED <<published, snapshot, replica, start_at, waiting_for_snapshot, playback>>
        /\ UNCHANGED <<buffered_messages, poll>>
    BY <1>1, Zenon DEF Subscribed, Race, masterVars, replicaVars
  <2>2. poll.pc = "idle" /\ buffered_messages = <<>>
    BY <1>a, <2>1 DEF QueryShape
  <2>3. Handled' = Len(published) /\ Before' = Len(published) /\ Handled = -1
    BY <1>b, <2>1, <2>2 DEF Handled, Before
  <2>4. ~(start_at = "playback" /\ Collecting') /\ ~(start_at = "playback" /\ Collecting)
    BY <1>b, <2>1, <2>2 DEF Collecting
  <2>5. snapshot # <<>> => /\ Known(Handled) = snapshot[1].version
                           /\ Known(Handled)' = snapshot[1].version
    BY <1>a, <2>1, <2>3, Numbers DEF Known
  <2>6. ContentsInv'
    BY <1>a, <2>1, <2>4, <2>5 DEF ContentsInv, Contents, StartInv
  <2>7. BufferInv'
    BY <1>a, <2>1, <2>2, <2>3, Numbers DEF BufferInv
  <2> QED BY <2>1, <2>2, <2>6, <2>7 DEF ApplyInv
<1>2. CASE PlaybackEnds
  <2>1. /\ start_at = "playback" /\ start_at' = "serving" /\ playback > Len(buffered_messages)
        /\ UNCHANGED <<published, delivered, snapshot, replica, waiting_for_snapshot, poll>>
    BY <1>2, Zenon DEF PlaybackEnds, masterVars, Start
  <2>2. ~Collecting /\ ~Collecting' /\ Handled' = Handled
    BY <1>b, <2>1 DEF Collecting, Handled
  <2>3. Contents(Known(Handled))'
    BY <2>1, <2>2 DEF ContentsInv, Contents, Known
  <2> QED BY <2>1, <2>2, <2>3 DEF BufferInv, ApplyInv, ContentsInv
<1>3. CASE subscribe_callback
  <2>1. /\ poll.pc = "idle" /\ delivered' = delivered + 1
        /\ ~(~waiting_for_snapshot /\ delivered < snapshot[1].version)
        /\ UNCHANGED <<published, snapshot, replica, start_at, waiting_for_snapshot, playback>>
        /\ UNCHANGED <<buffered_messages, Collecting>>
    BY <1>3, Zenon DEF subscribe_callback, Race, masterVars, Collecting
  <2>2. poll'.pc = IF waiting_for_snapshot THEN "buffer" ELSE "update"
    BY <1>3 DEF subscribe_callback
  <2>3. Handled' = Handled /\ Before' = Before
    BY <1>b, <2>1, <2>2 DEF Handled, Before
  <2>4. ApplyInv'
    BY <1>a, <1>b, <2>1, <2>2, Numbers DEF ApplyInv, StartInv
  <2>5. BufferInv'
    BY <2>1, <2>3 DEF BufferInv
  <2> QED BY <2>1, <2>3, <2>4, <2>5 DEF ContentsInv, Contents, Known
<1>4. CASE BufferMessage
  <2>1. /\ poll.pc = "buffer" /\ waiting_for_snapshot
        /\ buffered_messages' = Append(buffered_messages, published[poll.msg])
        /\ UNCHANGED <<published, delivered, snapshot, replica, start_at, waiting_for_snapshot>>
    BY <1>4, Zenon DEF BufferMessage, Race, masterVars
  <2>2. poll'.pc = "idle" /\ poll.msg = delivered /\ delivered \in 1..Len(published)
    BY <1>4, <1>a, <2>1 DEF BufferMessage, QueryShape
  <2>3. start_at \notin {"version", "playback", "serving"} /\ Collecting
    BY <1>a, <2>1 DEF StartInv, Collecting
  <2>4. published[poll.msg] \in Update
    BY <1>b, <2>2, ElementOfSeq
  <2>5. Len(buffered_messages') = Len(buffered_messages) + 1 /\ Len(buffered_messages) \in Nat
    BY <1>b, <2>1, <2>4
  <2>6. /\ Handled = delivered - 1 /\ Handled' = delivered /\ Before' = Before
        /\ Before \in Int /\ Before + Len(buffered_messages) + 1 = delivered
    BY <1>b, <2>1, <2>2, <2>5 DEF Handled, Before
  <2>7. 0 <= Before
    <3>1. buffered_messages = <<>> => Before = delivered - 1
      BY <2>6
    <3> QED BY <2>2, <2>3, <2>6, <3>1 DEF BufferInv
  <2>8. ASSUME NEW k \in 1..Len(buffered_messages') PROVE buffered_messages'[k] = published[Before + k]
    <3>1. CASE k = Len(buffered_messages) + 1
      <4>1. buffered_messages'[k] = published[poll.msg]
        BY <1>b, <2>1, <2>4, <3>1
      <4> QED BY <2>2, <2>5, <2>6, <3>1, <4>1
    <3>2. CASE k \in 1..Len(buffered_messages)
      <4>1. buffered_messages'[k] = buffered_messages[k]
        BY <1>b, <2>1, <2>4, <3>2
      <4> QED BY <2>3, <3>2, <4>1 DEF BufferInv
    <3> QED BY <2>5, <3>1, <3>2
  <2>9. BufferInv'
    BY <2>1, <2>3, <2>6, <2>7, <2>8 DEF BufferInv
  <2> QED BY <2>1, <2>2, <2>3, <2>9 DEF ApplyInv, ContentsInv
<1>5. CASE ApplyMessage
  <2>1. /\ poll.pc = "update" /\ ~HandingOver
        /\ replica' = process_message(replica, published[poll.msg].msg)
        /\ UNCHANGED <<published, delivered, snapshot, start_at, waiting_for_snapshot, playback>>
        /\ UNCHANGED <<buffered_messages, Collecting>>
    BY <1>5, Zenon DEF ApplyMessage, Race, masterVars, Collecting
  <2>2. poll'.pc = "idle" /\ poll.msg = delivered /\ delivered \in 1..Len(published)
    BY <1>5, <1>a, <2>1 DEF ApplyMessage, QueryShape
  <2>3. ~waiting_for_snapshot /\ snapshot[1].version < delivered
    BY <2>1 DEF ApplyInv
  <2>4. start_at \in {"playback", "serving"} /\ ~Collecting /\ snapshot # <<>>
    BY <1>a, <2>1, <2>3 DEF StartInv, HandingOver, Collecting
  <2>5. Handled = delivered - 1 /\ Handled' = delivered /\ snapshot[1].version \in Nat
    BY <1>a, <2>1, <2>2, <2>4, Numbers DEF Handled
  <2>6. Known(Handled) = delivered - 1 /\ Known(Handled)' = delivered
    BY <1>b, <2>1, <2>3, <2>5 DEF Known
  <2>7. Contents(delivered - 1)
    BY <2>4, <2>6 DEF ContentsInv
  <2>8. Log(published, delivered) = Append(Log(published, delivered - 1), published[delivered].msg)
    <3>1. delivered - 1 \in 0..(Len(published) - 1) /\ (delivered - 1) + 1 = delivered
      BY <2>2
    <3> QED BY <1>b, <3>1, LogNext
  <2>9. replica'.log = Log(published, delivered) /\ replica'.version = delivered
    BY <2>1, <2>2, <2>7, <2>8 DEF Contents, process_message
  <2>10. Contents(Known(Handled))'
    BY <2>1, <2>6, <2>9 DEF Contents
  <2> QED BY <2>1, <2>2, <2>4, <2>10 DEF BufferInv, ApplyInv, ContentsInv
<1> QED
  BY <1>1, <1>2, <1>3, <1>4, <1>5

\* Every step keeps the replica in line with the master, unless it is a race.
LEMMA FollowKept ==
  ASSUME QueryInv, [QueryNext]_queryVars
  PROVE  FollowInv'
<1> SUFFICES ASSUME races' = {} PROVE BufferInv' /\ ApplyInv' /\ ContentsInv'
  BY DEF FollowInv
<1>1. races = {}
  BY RacesStay
<1>2. BufferInv /\ ApplyInv /\ ContentsInv
  BY <1>1, Zenon DEF QueryInv, FollowInv
<1>3. CASE UNCHANGED <<published, delivered, replicaVars, snapshot>>
  BY <1>2, <1>3 DEF replicaVars, BufferInv, ApplyInv, ContentsInv, Collecting, Before, Handled,
     Known, Contents
<1>4. CASE UNCHANGED queryVars
  BY <1>3, <1>4, Zenon DEF queryVars, replicaVars
<1>5. CASE \E t \in ServerThread : ReadVersion(t) \/ master_reply_callback(t)
  BY <1>3, <1>5, Zenon DEF ReadVersion, master_reply_callback
<1>6. CASE \E t \in ServerThread : Publish(t)
  BY <1>6, FollowPublish, Zenon DEF FollowInv
<1> QED
  BY <1>1, <1>2, <1>4, <1>5, <1>6, FollowStart, FollowPlayback, FollowPoll, Zenon DEF QueryNext

\* The invariant holds in every state the master and the replica reach.
THEOREM QueryInvariant == QuerySpec => []QueryInv
<1>1. QueryInv /\ [QueryNext]_queryVars => QueryInv'
  BY ShapeKept, OrderKept, VersionKept, StartKept, FollowKept DEF QueryInv
<1> QED
  BY <1>1, QueryInitInv, PTL DEF QuerySpec

\* master_reply_callback publishes the updates that changed the object once and
\* in the order in which they changed it, whatever the number of server threads.
THEOREM PublishedAsApplied == QuerySpec => []PublishedInOrder
<1>1. QueryInv => PublishedInOrder
  BY DEF QueryInv, OrderInv
<1> QED
  BY <1>1, QueryInvariant, PTL

\* What was published is the beginning of the log of the master.
LEMMA PublishedPrefix ==
  ASSUME QueryInv, NEW n \in 0..Len(published)
  PROVE  Log(published, n) = SubSeq(master.log, 1, n)
<1>1. published \in Seq(Update) /\ \A t \in ServerThread : server[t].msg \in Nat
  BY DEF QueryInv, QueryShape
<1>2. /\ Log(published, Len(published)) \in Seq(Nat)
      /\ Len(Log(published, Len(published))) = Len(published)
  BY <1>1, LogAll
<1>3. /\ master.log \in Seq(Nat) /\ Len(published) <= Len(master.log)
      /\ \A i \in 1..Len(published) : master.log[i] = Log(published, Len(published))[i]
  <2>1. CASE master.log = Log(published, Len(published))
    BY <1>1, <1>2, <2>1
  <2>2. ASSUME NEW t \in ServerThread, master.log = Append(Log(published, Len(published)), server[t].msg)
        PROVE  <1>3!:
    BY <1>1, <1>2, <2>2
  <2> QED
    BY <2>1, <2>2, InOrder DEF QueryInv, OrderInv, InLogOrder
<1>4. \A i \in 1..n : master.log[i] = published[i].msg
  BY <1>3 DEF Log
<1>5. SubSeq(master.log, 1, n) = [i \in 1..n |-> master.log[i]]
  BY <1>3
<1> QED
  BY <1>4, <1>5, Zenon DEF Log

\* The snapshot that start() loads, the messages it plays back and those that
\* subscribe_callback applies make up the log of the master, whatever the number
\* of server threads and updates, unless one of the four races happened.
THEOREM FollowsMaster == QuerySpec => []ReplicaFollows
<1>1. QueryInv => ReplicaFollows
  <2> SUFFICES ASSUME QueryInv, races = {}, start_at = "serving"
               PROVE  /\ replica.log = SubSeq(master.log, 1, Known(Handled))
                      /\ replica.version = Len(replica.log)
    BY Zenon DEF ReplicaFollows, Known, Handled
  <2>1. Contents(Known(Handled))
    BY Zenon DEF QueryInv, FollowInv, ContentsInv
  <2>2. Known(Handled) \in 0..Len(published)
    BY KnownPublished DEF QueryInv, StartInv
  <2>3. published \in Seq(Update)
    BY DEF QueryInv, QueryShape
  <2> QED
    BY <2>1, <2>2, <2>3, PublishedPrefix, LogType DEF Contents
<1> QED
  BY <1>1, QueryInvariant, PTL
=============================================================================
