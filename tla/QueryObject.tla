----------------------------- MODULE QueryObject -----------------------------
(* A replicated query object of libfault: the master applies the updates of     *)
(* the clients with several threads and publishes those that changed it; a      *)
(* replica that starts subscribes, asks for a snapshot, and plays back what was *)
(* published meanwhile.  Elections and the manager's processes are left out:    *)
(* one master that lives, and one replica.                                      *)
EXTENDS Integers, Sequences

CONSTANTS
  ServerThread,  \* threads of the async_reply_socket of the master
  MaxUpdates     \* bound: update messages of clients, numbered as they are taken

ASSUME QueryAssumption == MaxUpdates \in Nat /\ "none" \notin ServerThread

VARIABLES
  master,             \* qobj of the master: [log, version], log the updates in it
  query_obj_rwlock,   \* the thread with the exclusive lock, or "none"
  server,             \* server[t]: [pc, version, msg]
  taken,              \* updates taken from the jobqueue
  published,          \* what was sent on pubsock: [version, msg]
  delivered,          \* how many of them the replica received, or missed; -1: not subscribed
  replica,            \* qobj of the replica: [log, version]
  start_at,           \* where the thread in start() of the replica is
  waiting_for_snapshot,
  buffered_messages, playback,
  poll,               \* poll thread of the replica: [pc, msg]
  snapshot,           \* the reply with the serialized contents, once it was made
  races               \* history: the races that happened between master and replica

queryVars == <<master, query_obj_rwlock, server, taken, published, delivered, replica,
               start_at, waiting_for_snapshot, buffered_messages, playback, poll, snapshot, races>>
masterVars == <<master, query_obj_rwlock, server, taken, published>>
replicaVars == <<replica, start_at, waiting_for_snapshot, buffered_messages, playback, poll>>

Fresh == [log |-> <<>>, version |-> 0]

(* The replica's constructor has run: connect takes effect later.              *)
QueryInit ==
  /\ master = Fresh /\ replica = Fresh
  /\ query_obj_rwlock = "none"
  /\ server = [t \in ServerThread |-> [pc |-> "idle", version |-> 0, msg |-> 0]]
  /\ taken = 0 /\ published = <<>>
  /\ delivered = -1
  /\ start_at = "request" /\ waiting_for_snapshot = TRUE
  /\ buffered_messages = <<>> /\ playback = 1
  /\ poll = [pc |-> "idle", msg |-> 0]
  /\ snapshot = <<>>
  /\ races = {}

(* update of query_object, which may or may not change the object.              *)
process_message(qobj, msg) == [log |-> Append(qobj.log, msg), version |-> qobj.version + 1]
-----------------------------------------------------------------------------
(* master_reply_callback for an update: the version is read before the lock.    *)
ReadVersion(t) ==
  /\ server[t].pc = "idle" /\ taken < MaxUpdates
  /\ taken' = taken + 1
  /\ server' = [server EXCEPT ![t] = [pc |-> "lock", version |-> master.version, msg |-> taken + 1]]
  /\ UNCHANGED <<master, query_obj_rwlock, published, delivered, replicaVars, snapshot, races>>

(* Faulty variant: the lock is let go before the message is published.          *)
LockDropped(t) == "none"
LockKept(t) == t

master_reply_callback(t) ==
  /\ server[t].pc = "lock" /\ query_obj_rwlock = "none"
  /\ \/ /\ master' = process_message(master, server[t].msg)
        /\ query_obj_rwlock' = LockKept(t)
        /\ server' = [server EXCEPT ![t].pc = "publish"]
     \/ /\ server' = [server EXCEPT ![t].pc = "idle"]
        /\ UNCHANGED <<master, query_obj_rwlock>>
  /\ UNCHANGED <<taken, published, delivered, replicaVars, snapshot, races>>

Race(name, happens) == races' = IF happens THEN races \cup {name} ELSE races

Publish(t) ==
  /\ server[t].pc = "publish"
  /\ published' = Append(published, [version |-> server[t].version, msg |-> server[t].msg])
  /\ query_obj_rwlock' = "none"
  /\ server' = [server EXCEPT ![t].pc = "idle"]
  /\ Race("stale version", server[t].version # master.version - 1)
  /\ UNCHANGED <<master, taken, delivered, replicaVars, snapshot>>

(* The query for the serialized contents, under the shared lock.                *)
Serialize ==
  /\ start_at = "wait" /\ snapshot = <<>>
  /\ \E t \in ServerThread : server[t].pc = "idle"
  /\ query_obj_rwlock = "none"
  /\ snapshot' = <<master>>
  /\ UNCHANGED <<masterVars, delivered, replicaVars, races>>
-----------------------------------------------------------------------------
(* The subscription reaches the publisher, which drops what it sent before.     *)
Subscribed ==
  /\ delivered = -1
  /\ delivered' = Len(published)
  /\ Race("late subscription", snapshot # <<>> /\ Len(published) > snapshot[1].version)
  /\ UNCHANGED <<masterVars, replicaVars, snapshot>>

Start(at, to) == start_at = at /\ start_at' = to

Request ==
  /\ Start("request", "wait")
  /\ UNCHANGED <<masterVars, delivered, replica, waiting_for_snapshot, buffered_messages,
                 playback, poll, snapshot, races>>

(* The wait for the reply ends without one: start returns, the process exits.   *)
RequestFails ==
  /\ Start("wait", "failed")
  /\ UNCHANGED <<masterVars, delivered, replica, waiting_for_snapshot, buffered_messages,
                 playback, poll, snapshot, races>>

SnapshotArrives ==
  /\ snapshot # <<>>
  /\ Start("wait", "deserialize")
  /\ waiting_for_snapshot' = FALSE
  /\ UNCHANGED <<masterVars, delivered, replica, buffered_messages, playback, poll, snapshot, races>>

deserialize ==
  /\ Start("deserialize", "version")
  /\ replica' = [replica EXCEPT !.log = snapshot[1].log]
  /\ UNCHANGED <<masterVars, delivered, waiting_for_snapshot, buffered_messages, playback, poll,
                 snapshot, races>>

SetVersion ==
  /\ Start("version", "playback")
  /\ replica' = [replica EXCEPT !.version = snapshot[1].version]
  /\ UNCHANGED <<masterVars, delivered, waiting_for_snapshot, buffered_messages, playback, poll,
                 snapshot, races>>

(* Faulty variant: the first message the snapshot lacks is taken for part of it.*)
AfterSnapshot(version) == version > replica.version
NotInSnapshot(version) == version >= replica.version

playback_recorded_messages ==
  /\ start_at = "playback" /\ playback <= Len(buffered_messages)
  /\ LET recorded == buffered_messages[playback]
     IN replica' = IF NotInSnapshot(recorded.version) THEN process_message(replica, recorded.msg)
                                                      ELSE replica
  /\ playback' = playback + 1
  /\ UNCHANGED <<masterVars, delivered, start_at, waiting_for_snapshot, buffered_messages, poll,
                 snapshot, races>>

PlaybackEnds ==
  /\ playback > Len(buffered_messages)
  /\ Start("playback", "serving")
  /\ buffered_messages' = <<>>
  /\ UNCHANGED <<masterVars, delivered, replica, waiting_for_snapshot, playback, poll, snapshot,
                 races>>
-----------------------------------------------------------------------------
(* The poll thread of the replica: subscribe_callback looks, then acts.         *)
HandingOver ==
  \/ start_at \in {"deserialize", "version"}
  \/ start_at = "playback" /\ playback <= Len(buffered_messages)

subscribe_callback ==
  /\ poll.pc = "idle" /\ delivered # -1 /\ delivered < Len(published) /\ start_at # "failed"
  /\ delivered' = delivered + 1
  /\ poll' = [pc |-> IF waiting_for_snapshot THEN "buffer" ELSE "update", msg |-> delivered + 1]
  /\ Race("late delivery", ~waiting_for_snapshot /\ delivered < snapshot[1].version)
  /\ UNCHANGED <<masterVars, replica, start_at, waiting_for_snapshot, buffered_messages, playback,
                 snapshot>>

BufferMessage ==
  /\ poll.pc = "buffer"
  /\ buffered_messages' = Append(buffered_messages, published[poll.msg])
  /\ poll' = [poll EXCEPT !.pc = "idle"]
  /\ Race("hand-over", ~waiting_for_snapshot)
  /\ UNCHANGED <<masterVars, delivered, replica, start_at, waiting_for_snapshot, playback, snapshot>>

ApplyMessage ==
  /\ poll.pc = "update"
  /\ replica' = process_message(replica, published[poll.msg].msg)
  /\ poll' = [poll EXCEPT !.pc = "idle"]
  /\ Race("hand-over", HandingOver)
  /\ UNCHANGED <<masterVars, delivered, start_at, waiting_for_snapshot, buffered_messages, playback,
                 snapshot>>
-----------------------------------------------------------------------------
QueryDone ==
  /\ taken = MaxUpdates /\ \A t \in ServerThread : server[t].pc = "idle"
  /\ start_at \in {"serving", "failed"}
  /\ poll.pc = "idle" /\ (delivered = Len(published) \/ start_at = "failed")

QueryNext ==
  \/ \E t \in ServerThread : ReadVersion(t) \/ master_reply_callback(t) \/ Publish(t)
  \/ Serialize \/ Subscribed \/ Request \/ RequestFails \/ SnapshotArrives \/ deserialize
  \/ SetVersion \/ playback_recorded_messages \/ PlaybackEnds
  \/ subscribe_callback \/ BufferMessage \/ ApplyMessage

QuerySpec == QueryInit /\ [][QueryNext]_queryVars
-----------------------------------------------------------------------------
QueryTypeOK ==
  /\ taken \in 0..MaxUpdates /\ delivered \in -1..Len(published)
  /\ query_obj_rwlock \in ServerThread \cup {"none"}
  /\ races \subseteq {"stale version", "late subscription", "late delivery", "hand-over"}

(* Every update that changed the master is published once, in the order in      *)
(* which the updates changed it, or is about to be by the one thread in         *)
(* between ("we must release the lock only after we send out the pub socket"):  *)
(* a subscriber never sees an order the master never had.                       *)
PublishedInOrder ==
  LET sent == [i \in 1..Len(published) |-> published[i].msg]
  IN  \/ /\ \A t \in ServerThread : server[t].pc # "publish"
         /\ master.log = sent
      \/ \E t \in ServerThread : server[t].pc = "publish" /\ master.log = Append(sent, server[t].msg)

(* Snapshot and playback fit together: unless one of the four races happened,   *)
(* a replica that serves holds exactly the updates of the master up to the      *)
(* last one it knows of, in the same order, none lost and none applied twice.   *)
ReplicaFollows ==
  races = {} /\ start_at = "serving" =>
    LET handled == IF poll.pc = "idle" THEN delivered ELSE delivered - 1
        known == IF handled > snapshot[1].version THEN handled ELSE snapshot[1].version
    IN  /\ replica.log = SubSeq(master.log, 1, known)
        /\ replica.version = Len(replica.log)

(* The comment in master_reply_callback on the version attached to a published  *)
(* message: "this is the version BEFORE the message".                           *)
VersionBefore == \A i \in DOMAIN published : published[i].version = i - 1
=============================================================================
