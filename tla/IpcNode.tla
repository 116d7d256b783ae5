------------------------------ MODULE IpcNode ------------------------------
(***************************************************************************)
(* A node behind a Unix socket: IpcNodeServer takes one connection after   *)
(* the other and answers its requests in turn, IpcNodeClient lends one     *)
(* connection to several threads under a mutex.  The sequence of a request *)
(* is the number of the caller's own cache handle, and the server keeps a  *)
(* cache for every number it has seen.                                     *)
(***************************************************************************)
EXTENDS Naturals, Sequences, FiniteSets

CONSTANTS Clients,      \* processes with a connection to the node
          Threads,      \* callers inside each of them
          SeqIds,       \* cache handle numbers the callers use
          CacheRoom,    \* caches the node's device has memory for
          MaxCalls      \* bound: calls of one thread

IpcAssumption ==
  /\ IsFiniteSet(Clients) /\ IsFiniteSet(Threads) /\ IsFiniteSet(SeqIds)
  /\ {CacheRoom, MaxCalls} \subseteq Nat \ {0}

VARIABLES link,      \* none, queued, open or closed: the connection of a client
          backlog,   \* connections in the order they were made
          lock,      \* the thread that holds the stream of a client
          calls,     \* calls of every thread so far
          pc,        \* idle, waits for the mutex, reads, answered or failed
          toServer,  \* requests on a connection
          toClient,  \* responses on a connection
          handles,   \* seq_id to CacheHandle, as its domain
          server,    \* serving, or failed once an error has left serve
          got        \* response a thread has taken last

vars == <<link, backlog, lock, calls, pc, toServer, toClient, handles, server, got>>

NoThread == "none"
Request(c, t, s) == [client |-> c, thread |-> t, call |-> calls[c][t], seq |-> s]
NoRequest == [client |-> "none", thread |-> "none", call |-> 0, seq |-> "none"]

Init ==
  /\ link = [c \in Clients |-> "none"] /\ backlog = <<>>
  /\ lock = [c \in Clients |-> NoThread]
  /\ calls = [c \in Clients |-> [t \in Threads |-> 0]]
  /\ pc = [c \in Clients |-> [t \in Threads |-> "idle"]]
  /\ toServer = [c \in Clients |-> <<>>] /\ toClient = [c \in Clients |-> <<>>]
  /\ handles = {} /\ server = "serving"
  /\ got = [c \in Clients |-> [t \in Threads |-> NoRequest]]

(***************************************************************************)
(* IpcNodeClient.                                                          *)
(***************************************************************************)
Connect(c) ==
  /\ link[c] = "none" /\ server = "serving"
  /\ link' = [link EXCEPT ![c] = "queued"]
  /\ backlog' = Append(backlog, c)
  /\ UNCHANGED <<lock, calls, pc, toServer, toClient, handles, server, got>>

Lock(c, t) == lock[c] = NoThread

\* The request is written as soon as the mutex is taken, also to a server that
\* has not come to this connection yet.
Forward(c, t) ==
  /\ link[c] \in {"queued", "open"} /\ pc[c][t] = "idle" /\ calls[c][t] < MaxCalls
  /\ Lock(c, t)
  /\ lock' = [lock EXCEPT ![c] = t]
  /\ \E s \in SeqIds : toServer' = [toServer EXCEPT ![c] = Append(@, Request(c, t, s))]
  /\ pc' = [pc EXCEPT ![c][t] = "reads"]
  /\ UNCHANGED <<link, backlog, calls, toClient, handles, server, got>>

Read(c, t) ==
  /\ pc[c][t] = "reads" /\ toClient[c] # <<>>
  /\ got' = [got EXCEPT ![c][t] = Head(toClient[c])]
  /\ toClient' = [toClient EXCEPT ![c] = Tail(@)]
  /\ pc' = [pc EXCEPT ![c][t] = "answered"]
  /\ lock' = [lock EXCEPT ![c] = NoThread]
  /\ UNCHANGED <<link, backlog, calls, toServer, handles, server>>

\* The caller takes the result and may call again.
Return(c, t) ==
  /\ pc[c][t] \in {"answered", "failed"}
  /\ pc' = [pc EXCEPT ![c][t] = "idle"]
  /\ calls' = [calls EXCEPT ![c][t] = @ + 1]
  /\ got' = [got EXCEPT ![c][t] = NoRequest]
  /\ UNCHANGED <<link, backlog, lock, toServer, toClient, handles, server>>

\* The read ends with an error once the connection is gone.
ReadFails(c, t) ==
  /\ pc[c][t] = "reads" /\ link[c] = "closed" /\ toClient[c] = <<>>
  /\ pc' = [pc EXCEPT ![c][t] = "failed"]
  /\ lock' = [lock EXCEPT ![c] = NoThread]
  /\ UNCHANGED <<link, backlog, calls, toServer, toClient, handles, server, got>>

\* The client is dropped when no call is in progress.
Disconnect(c) ==
  /\ link[c] \in {"queued", "open"}
  /\ \A t \in Threads : pc[c][t] = "idle"
  /\ link' = [link EXCEPT ![c] = "closed"]
  /\ UNCHANGED <<backlog, lock, calls, pc, toServer, toClient, handles, server, got>>

(***************************************************************************)
(* IpcNodeServer.                                                          *)
(***************************************************************************)
Serving(c) == server = "serving" /\ backlog # <<>> /\ c = Head(backlog)

Accept ==
  /\ server = "serving" /\ backlog # <<>> /\ link[Head(backlog)] = "queued"
  /\ link' = [link EXCEPT ![Head(backlog)] = "open"]
  /\ UNCHANGED <<backlog, lock, calls, pc, toServer, toClient, handles, server, got>>

\* End of file: on to the next connection.
NextConnection ==
  \E c \in Clients :
    /\ Serving(c) /\ link[c] = "closed" /\ toServer[c] = <<>>
    /\ backlog' = Tail(backlog)
    /\ UNCHANGED <<link, lock, calls, pc, toServer, toClient, handles, server, got>>

HasRoom(s) == s \in handles \/ Cardinality(handles) < CacheRoom

\* handle_message and the response: the cache of the sequence is looked up or
\* made, and never given back.
Answer(c) ==
  /\ Serving(c) /\ link[c] # "queued" /\ toServer[c] # <<>>
  /\ LET req == Head(toServer[c])
     IN /\ HasRoom(req.seq)
        /\ handles' = handles \cup {req.seq}
        /\ toClient' = [toClient EXCEPT ![c] = IF link[c] = "open" THEN Append(@, req) ELSE @]
  /\ toServer' = [toServer EXCEPT ![c] = Tail(@)]
  /\ UNCHANGED <<link, backlog, lock, calls, pc, server, got>>

ClosedServed == [link EXCEPT ![Head(backlog)] = "closed"]
ClosedAll == [c \in Clients |-> IF link[c] = "none" THEN "none" ELSE "closed"]

\* No memory for a cache, or the pass fails: the error leaves handle_connection
\* and serve, and with them every connection.
Stops(c) ==
  /\ Serving(c) /\ link[c] # "queued" /\ toServer[c] # <<>>
  /\ server' = "failed" /\ link' = ClosedAll
  /\ UNCHANGED <<backlog, lock, calls, pc, toServer, toClient, handles, got>>

Next ==
  \/ Accept \/ NextConnection
  \/ \E c \in Clients : \/ Connect(c) \/ Disconnect(c) \/ Answer(c) \/ Stops(c)
                        \/ \E t \in Threads : Forward(c, t) \/ Read(c, t) \/ Return(c, t) \/ ReadFails(c, t)

(***************************************************************************)
(* The processes run on, and a client that is done goes away.              *)
(***************************************************************************)
Fairness ==
  /\ WF_vars(Accept) /\ WF_vars(NextConnection)
  /\ \A c \in Clients : /\ WF_vars(Disconnect(c)) /\ WF_vars(Answer(c) \/ Stops(c))
                        /\ \A t \in Threads : /\ WF_vars(Read(c, t)) /\ WF_vars(Return(c, t))
                                              /\ WF_vars(ReadFails(c, t))

Spec == Init /\ [][Next]_vars /\ Fairness

(***************************************************************************)
(* Properties.                                                             *)
(***************************************************************************)
\* The response a thread takes from the shared connection is the one to its own
\* call: seq_id in the response is not compared.
TakesItsOwn ==
  \A c \in Clients, t \in Threads :
    pc[c][t] = "answered" => /\ got[c][t].client = c /\ got[c][t].thread = t
                             /\ got[c][t].call = calls[c][t]

Waiting(c, t) == pc[c][t] = "reads"

\* A call comes back with an answer or an error, although the server looks at
\* one connection only.
CallsReturn ==
  \A c \in Clients, t \in Threads : Waiting(c, t) ~> ~Waiting(c, t)

\* "Serve requests on a Unix socket. Blocks until the listener is dropped."
ServesOn == server = "serving"
=============================================================================
