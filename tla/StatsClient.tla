---------------------------- MODULE StatsClient ----------------------------
(***************************************************************************)
(* The web server's connection to the daemon: Log_analy._send_request of   *)
(* logser_client.py, called by the request handlers and by StatsThread,    *)
(* against command_handler and the socket_threads of log_topn.c.           *)
(*                                                                         *)
(* A request is a number, given in the order the requests get the mutex of *)
(* Log_analy.  Requests and replies come in two parts, length and body.  A *)
(* connection is a number as well.  What the two kernels do is modelled    *)
(* from how the code uses them: what was sent before a connection was      *)
(* closed can still be read, data sent to a closed connection is dropped,  *)
(* and SIGPIPE, which nobody handles, may then end the daemon.             *)
(***************************************************************************)
EXTENDS Naturals, Sequences, SequencesExt

CONSTANTS
  Caller,   \* threads of the web server
  Retries,  \* attempts to reconnect (3)
  NULL,
  MaxCalls, \* bound: requests
  MaxConn,  \* bound: connections
  MaxCrash  \* bound: crashes of the web server

ASSUME BoundAssumption ==
  /\ Retries \in Nat \ {0} /\ MaxCalls \in Nat /\ MaxConn \in Nat \ {0}
  /\ MaxCrash \in Nat
  /\ NULL \notin Nat

Call == 1 .. MaxCalls
Conn == 1 .. MaxConn

VARIABLES
  pc,         \* where each caller is in _send_request
  mutex,      \* is Log_analy.mutex taken
  req, reply, \* the request and the reply of each caller; NULL: an empty one
  ncalls,     \* requests so far
  connecting, \* Log_analy.connecting
  sock,       \* the connection of Log_analy.sock; NULL: none
  retry,      \* Log_analy.retry_count
  up, ncrash, \* does the web server run, and how often did it die
  nconn,      \* connections made so far
  inbox,      \* the parts the daemon has not read, by connection
  outbox,     \* the parts the client has not read, by connection
  alive,      \* does the daemon run
  spc,        \* where the socket_thread of each connection is
  serving,    \* the request it works on
  executed,   \* ghost: the requests the daemon executed, in order
  givenUp     \* ghost: the requests whose caller got no reply

log_analy == <<mutex, connecting, sock, retry, up, ncrash>>
callers == <<pc, req, reply, ncalls, givenUp>>
daemon == <<alive, spc, serving, executed>>
vars == <<log_analy, callers, nconn, inbox, outbox, daemon>>

\* Log_analy.__init__ connected.
Init ==
  /\ pc = [t \in Caller |-> "idle"] /\ mutex = FALSE
  /\ req = [t \in Caller |-> NULL] /\ reply = [t \in Caller |-> NULL]
  /\ ncalls = 0 /\ givenUp = {}
  /\ connecting = TRUE /\ sock = 1 /\ retry = 0 /\ nconn = 1
  /\ up = TRUE /\ ncrash = 0
  /\ inbox = [c \in Conn |-> <<>>] /\ outbox = [c \in Conn |-> <<>>]
  /\ alive = TRUE
  /\ spc = [c \in Conn |-> IF c = 1 THEN "read" ELSE "off"]
  /\ serving = [c \in Conn |-> NULL]
  /\ executed = <<>>

Go(t, l) == pc' = [pc EXCEPT ![t] = l]
ServerGo(c, l) == spc' = [spc EXCEPT ![c] = l]

Part(l, n) == [part |-> l, call |-> n]

\* The client's end of the connection is closed.
Shut(c) == c <= nconn /\ c # sock

-----------------------------------------------------------------------------
(* _send_request.                                                          *)

_send_request(t) ==
  /\ pc[t] = "idle" /\ up /\ ncalls < MaxCalls
  /\ Go(t, "acquire")
  /\ UNCHANGED <<log_analy, req, reply, ncalls, givenUp, nconn, inbox, outbox, daemon>>

\* Mutant: the mutex does not exclude.
Free_Always == TRUE

Free == ~mutex

\* mutex.acquire(), and the start of _reconncet if there is no connection.
\* A caller that waits while the others use up MaxCalls is turned away.
_send_request_acquire(t) ==
  /\ pc[t] = "acquire" /\ Free
  /\ IF ncalls = MaxCalls
     THEN Go(t, "idle") /\ UNCHANGED <<mutex, req, reply, ncalls, retry>>
     ELSE /\ mutex' = TRUE
          /\ ncalls' = ncalls + 1
          /\ req' = [req EXCEPT ![t] = ncalls + 1]
          /\ reply' = [reply EXCEPT ![t] = NULL]
          /\ retry' = IF connecting THEN retry ELSE 0
          /\ Go(t, IF connecting THEN "send" ELSE "reconnect")
  /\ UNCHANGED <<connecting, sock, up, ncrash, givenUp, nconn, inbox, outbox, daemon>>

\* The old socket is closed, a new one connected; command_handler accepts it
\* and starts a socket_thread.
_reconncet(t) ==
  /\ pc[t] = "reconnect" /\ alive /\ nconn < MaxConn
  /\ nconn' = nconn + 1
  /\ sock' = nconn + 1
  /\ connecting' = TRUE
  /\ ServerGo(nconn + 1, "read")
  /\ Go(t, "send")
  /\ UNCHANGED <<mutex, retry, up, ncrash, req, reply, ncalls, givenUp, inbox, outbox,
                 alive, serving, executed>>

\* The old socket is closed, the new one does not connect.  After the last
\* attempt the request is sent all the same.
_reconncet_fails(t) ==
  /\ pc[t] = "reconnect"
  /\ sock' = NULL
  /\ retry' = retry + 1
  /\ IF retry + 1 < Retries THEN UNCHANGED pc ELSE Go(t, "send")
  /\ UNCHANGED <<mutex, connecting, up, ncrash, req, reply, ncalls, givenUp, nconn,
                 inbox, outbox, daemon>>

\* The two sends, of the length and of the body.
_send_request_send(t) ==
  /\ pc[t] \in {"send", "send_body"} /\ sock # NULL
  /\ LET part == IF pc[t] = "send" THEN "head" ELSE "body"
     IN inbox' = IF spc[sock] = "off" THEN inbox
                 ELSE [inbox EXCEPT ![sock] = Append(@, Part(part, req[t]))]
  /\ Go(t, IF pc[t] = "send" THEN "send_body" ELSE "recv")
  /\ UNCHANGED <<log_analy, req, reply, ncalls, givenUp, nconn, outbox, daemon>>

\* Mutant: the length is enough, and the connection is not used again.
_send_request_recv_Length(t) ==
  /\ pc[t] = "recv" /\ outbox[sock] # <<>>
  /\ reply' = [reply EXCEPT ![t] = Head(outbox[sock]).call]
  /\ connecting' = FALSE
  /\ Go(t, "release")
  /\ UNCHANGED <<mutex, sock, retry, up, ncrash, req, ncalls, givenUp, nconn, inbox, outbox,
                 daemon>>

\* recv(4), then _read_buf: what comes first on the connection.
_send_request_recv(t) ==
  /\ pc[t] \in {"recv", "body"} /\ outbox[sock] # <<>>
  /\ outbox' = [outbox EXCEPT ![sock] = Tail(@)]
  /\ IF pc[t] = "recv"
     THEN Go(t, "body") /\ UNCHANGED reply
     ELSE Go(t, "release") /\ reply' = [reply EXCEPT ![t] = Head(outbox[sock]).call]
  /\ UNCHANGED <<log_analy, req, ncalls, givenUp, nconn, inbox, daemon>>

\* The send fails, no answer comes for three seconds, or the connection is
\* closed by the daemon's end.
Fails(t) ==
  \/ pc[t] \in {"send", "send_body"} /\ (sock = NULL \/ ~alive)
  \/ pc[t] \in {"recv", "body"} /\ (outbox[sock] = <<>> \/ ~alive)

\* Mutant: the connection is not given up after a timeout.
_send_request_except_StillConnected(t) ==
  /\ Fails(t)
  /\ givenUp' = givenUp \cup {req[t]}
  /\ Go(t, "release")
  /\ UNCHANGED <<log_analy, req, reply, ncalls, nconn, inbox, outbox, daemon>>

\* The reply is empty, and the connection is not used again.
_send_request_except(t) ==
  /\ Fails(t)
  /\ connecting' = FALSE
  /\ givenUp' = givenUp \cup {req[t]}
  /\ Go(t, "release")
  /\ UNCHANGED <<mutex, sock, retry, up, ncrash, req, reply, ncalls, nconn, inbox, outbox,
                 daemon>>

\* Mutant: the mutex is released on success only.
_send_request_release_OnSuccess(t) ==
  /\ pc[t] = "release"
  /\ mutex' = (reply[t] = NULL)
  /\ Go(t, "idle")
  /\ UNCHANGED <<connecting, sock, retry, up, ncrash, req, reply, ncalls, givenUp, nconn,
                 inbox, outbox, daemon>>

_send_request_release(t) ==
  /\ pc[t] = "release"
  /\ mutex' = FALSE
  /\ Go(t, "idle")
  /\ UNCHANGED <<connecting, sock, retry, up, ncrash, req, reply, ncalls, givenUp, nconn,
                 inbox, outbox, daemon>>

-----------------------------------------------------------------------------
(* The daemon.                                                             *)

\* The two reads, of the length and of the body.
socket_thread_read(c) ==
  /\ spc[c] \in {"read", "half"} /\ inbox[c] # <<>>
  /\ serving' = [serving EXCEPT ![c] = Head(inbox[c]).call]
  /\ inbox' = [inbox EXCEPT ![c] = Tail(@)]
  /\ ServerGo(c, IF spc[c] = "read" THEN "half" ELSE "exec")
  /\ UNCHANGED <<log_analy, callers, nconn, outbox, alive, executed>>

\* Mutant: the thread does not leave its loop.
socket_thread_end_Continues(c) ==
  /\ spc[c] = "read" /\ inbox[c] = <<>> /\ Shut(c)
  /\ UNCHANGED vars

\* The first read returns 0: the client closed the connection.
socket_thread_end(c) ==
  /\ spc[c] = "read" /\ inbox[c] = <<>> /\ Shut(c)
  /\ ServerGo(c, "ended")
  /\ UNCHANGED <<log_analy, callers, nconn, inbox, outbox, alive, serving, executed>>

DaemonDies ==
  /\ alive' = FALSE
  /\ spc' = [d \in Conn |-> "off"]
  /\ inbox' = [d \in Conn |-> <<>>]
  /\ UNCHANGED <<log_analy, callers, nconn, outbox, serving, executed>>

\* The second read returns 0: an empty message lacks its required fields, unpack
\* returns NULL, and the request is printed.
socket_thread_unpack(c) ==
  /\ spc[c] = "half" /\ inbox[c] = <<>> /\ Shut(c)
  /\ DaemonDies

\* From lock to unlock: the request is executed.
socket_thread_exec(c) ==
  /\ spc[c] = "exec"
  /\ executed' = Append(executed, serving[c])
  /\ ServerGo(c, "head")
  /\ UNCHANGED <<log_analy, callers, nconn, inbox, outbox, alive, serving>>

AfterWrite(l) == IF l = "head" THEN "body" ELSE "read"

\* The two socket_writes.
socket_thread_write(c) ==
  /\ spc[c] \in {"head", "body"}
  /\ outbox' = IF Shut(c) THEN outbox
               ELSE [outbox EXCEPT ![c] = Append(@, Part(spc[c], serving[c]))]
  /\ ServerGo(c, AfterWrite(spc[c]))
  /\ UNCHANGED <<log_analy, callers, nconn, inbox, alive, serving, executed>>

\* One of them gets SIGPIPE instead.
socket_thread_sigpipe(c) ==
  /\ spc[c] \in {"head", "body"} /\ Shut(c)
  /\ DaemonDies

\* Somebody starts the daemon again.
restart ==
  /\ ~alive /\ alive' = TRUE
  /\ UNCHANGED <<log_analy, callers, nconn, inbox, outbox, spc, serving, executed>>

-----------------------------------------------------------------------------
(* The web server dies in the middle of its calls, and is started again.   *)

\* The callers that hold the mutex and have no reply yet.
Waiting == {t \in Caller : pc[t] \notin {"idle", "acquire", "release"}}

crash ==
  /\ up /\ ncrash < MaxCrash
  /\ up' = FALSE /\ ncrash' = ncrash + 1
  /\ givenUp' = givenUp \cup {req[t] : t \in Waiting}
  /\ pc' = [t \in Caller |-> "idle"] /\ mutex' = FALSE /\ sock' = NULL
  /\ UNCHANGED <<connecting, retry, req, reply, ncalls, nconn, inbox, outbox, daemon>>

\* Without the daemon it does not start.
__init__ ==
  /\ ~up /\ alive /\ nconn < MaxConn
  /\ up' = TRUE
  /\ connecting' = TRUE /\ retry' = 0
  /\ nconn' = nconn + 1 /\ sock' = nconn + 1
  /\ ServerGo(nconn + 1, "read")
  /\ UNCHANGED <<mutex, ncrash, callers, inbox, outbox, alive, serving, executed>>

-----------------------------------------------------------------------------

client(t) == \/ _reconncet(t) \/ _reconncet_fails(t)
             \/ _send_request_send(t) \/ _send_request_recv(t)
             \/ _send_request_except(t) \/ _send_request_release(t)

socket_thread(c) == \/ socket_thread_read(c) \/ socket_thread_end(c)
                    \/ socket_thread_unpack(c)
                    \/ socket_thread_exec(c) \/ socket_thread_write(c)
                    \/ socket_thread_sigpipe(c)

Next == \/ \E t \in Caller : _send_request(t) \/ _send_request_acquire(t) \/ client(t)
        \/ \E c \in Conn : socket_thread(c)
        \/ restart \/ crash \/ __init__

Spec == Init /\ [][Next]_vars

\* Every thread that can run does; a caller that waits for the mutex gets it
\* if it is released again and again.
FairSpec == /\ Spec
            /\ \A t \in Caller : /\ WF_vars(client(t))
                                 /\ SF_vars(_send_request_acquire(t))
            /\ \A c \in Conn : WF_vars(socket_thread(c))

-----------------------------------------------------------------------------
(* Properties.                                                             *)

Parts == [part : {"head", "body"}, call : Call]

TypeOK ==
  /\ pc \in [Caller -> {"idle", "acquire", "reconnect", "send", "send_body", "recv",
                    "body", "release"}]
  /\ mutex \in BOOLEAN /\ connecting \in BOOLEAN /\ alive \in BOOLEAN /\ up \in BOOLEAN
  /\ req \in [Caller -> Call \cup {NULL}] /\ reply \in [Caller -> Call \cup {NULL}]
  /\ ncalls \in 0 .. MaxCalls /\ givenUp \in SUBSET Call
  /\ sock \in Conn \cup {NULL} /\ nconn \in Conn /\ retry \in 0 .. Retries
  /\ inbox \in [Conn -> Seq(Parts)] /\ outbox \in [Conn -> Seq(Parts)]
  /\ ncrash \in 0 .. MaxCrash
  /\ spc \in [Conn -> {"off", "read", "half", "exec", "head", "body", "ended"}]
  /\ serving \in [Conn -> Call \cup {NULL}]
  /\ executed \in Seq(Call)

\* A caller never takes the late reply to an earlier request, or the reply to
\* another caller's, for its own: it gets its own reply, of a request that
\* was executed, or an empty one.
OwnReply ==
  /\ TypeOK
  /\ \A t \in Caller :
       pc[t] = "release" /\ reply[t] # NULL =>
         reply[t] = req[t] /\ req[t] \in ToSet(executed)

\* The request under way, as CallSpec sees it.
Holder == Waiting \cup {t \in Caller : pc[t] = "release"}
Holding == CHOOSE t \in Holder : TRUE
Calls == INSTANCE CallSpec WITH
  issued <- ncalls,
  open <- IF Holder = {} THEN 0 ELSE req[Holding],
  answer <- IF Holder = Waiting THEN <<>>
            ELSE <<IF reply[Holding] = NULL THEN 0 ELSE reply[Holding]>>

\* However late the replies are and whoever dies when, the connection is one
\* request at a time that is executed once at most, and answered by its own
\* reply or given up.
ImplementsCallSpec == Calls!CSpec

\* Clients kill the daemon only over a request that was given up: its caller
\* timed out, or died with it.  A request read to its end was sent to its end.
KilledByGivenUp ==
  [][alive /\ ~alive' => \E c \in Conn :
       spc[c] \in {"half", "head", "body"} /\ serving[c] \in givenUp]_vars

\* Every call returns, whatever happens to the daemon.
CallsReturn == \A t \in Caller : pc[t] = "acquire" ~> pc[t] = "idle"

\* The thread of a connection Log_analy does not use any more ends.
ThreadsEnd == \A c \in Conn : Shut(c) ~> spc[c] \in {"ended", "off"}
=============================================================================
