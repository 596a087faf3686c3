------------------------- MODULE StatsClientProofs -------------------------
(***************************************************************************)
(* Proofs about the connection of the web server to the daemon, for any    *)
(* threads and bounds.                                                     *)
(***************************************************************************)
EXTENDS StatsClient, Integers, TLAPS

-----------------------------------------------------------------------------
(* The inductive invariant.                                                *)

\* A caller holds the mutex; a part of its request was sent.
InCall(t) == pc[t] \notin {"idle", "acquire"}
OnLine(t) == pc[t] \in {"send_body", "recv", "body"}

\* The two parts of a request or a reply.
H(n) == Part("head", n)
B(n) == Part("body", n)

\* The requests of a connection that are not executed yet.
Pre(c) == {p.call : p \in ToSet(inbox[c])}
          \cup (IF spc[c] \in {"half", "exec"} THEN {serving[c]} ELSE {})

\* With the one the daemon is writing the reply to.
Working(c) == Pre(c) \cup (IF spc[c] \in {"head", "body"} THEN {serving[c]} ELSE {})

\* One caller at a time is in its call, with the last request.
OneCall ==
  /\ \A t, u \in Caller : InCall(t) /\ InCall(u) => t = u
  /\ \A t \in Caller : InCall(t) => mutex /\ req[t] = ncalls /\ ncalls # 0
  /\ up \/ \A t \in Caller : pc[t] = "idle"

\* Only requests and connections that were made are known.
Numbers ==
  /\ givenUp \subseteq 1 .. ncalls /\ ToSet(executed) \subseteq 1 .. ncalls
  /\ sock # NULL => sock <= nconn

\* Connections that are still to be made.
Fresh == \A c \in Conn : c > nconn => inbox[c] = <<>> /\ outbox[c] = <<>> /\ spc[c] = "off"

\* A request was sent: its parts are on their way to the daemon, or it is being
\* executed, or the reply is on its way, or the daemon died over it.
Sent(c, n) ==
  \/ spc[c] = "off" /\ outbox[c] \in {<<>>, <<H(n)>>, <<H(n), B(n)>>}
     /\ (outbox[c] # <<>> => n \in ToSet(executed))
  \/ spc[c] = "read" /\ inbox[c] = <<H(n), B(n)>> /\ outbox[c] = <<>>
  \/ spc[c] = "half" /\ inbox[c] = <<B(n)>> /\ serving[c] = n /\ outbox[c] = <<>>
  \/ spc[c] = "exec" /\ serving[c] = n /\ outbox[c] = <<>>
  \/ /\ n \in ToSet(executed)
     /\ \/ spc[c] = "head" /\ serving[c] = n /\ outbox[c] = <<>>
        \/ spc[c] = "body" /\ serving[c] = n /\ outbox[c] = <<H(n)>>
        \/ spc[c] = "read" /\ inbox[c] = <<>> /\ outbox[c] = <<H(n), B(n)>>

\* Only its length was sent.
HalfSent(c, n) ==
  /\ n \notin ToSet(executed) /\ outbox[c] = <<>>
  /\ \/ spc[c] = "off"
     \/ spc[c] = "read" /\ inbox[c] = <<H(n)>>
     \/ spc[c] = "half" /\ inbox[c] = <<>> /\ serving[c] = n

\* Only the length of the reply was read.
HalfRead(c, n) ==
  /\ n \in ToSet(executed)
  /\ \/ spc[c] = "off" /\ outbox[c] \in {<<>>, <<B(n)>>}
     \/ spc[c] = "body" /\ serving[c] = n /\ outbox[c] = <<>>
     \/ spc[c] = "read" /\ inbox[c] = <<>> /\ outbox[c] = <<B(n)>>

\* Nothing is on the connection and the daemon waits for a request, or is gone.
Quiet(c) == inbox[c] = <<>> /\ outbox[c] = <<>> /\ spc[c] \in {"off", "read"}

\* What a caller can rely on where it is.
CallerSound(t) ==
  /\ InCall(t) /\ pc[t] # "release" => reply[t] = NULL /\ ncalls \notin givenUp
  /\ pc[t] \in {"reconnect", "send"} => ncalls \notin ToSet(executed)
  /\ pc[t] = "reconnect" => ~ connecting /\ retry < Retries
  /\ pc[t] = "send" => connecting \/ sock = NULL
  /\ OnLine(t) => sock \in Conn
  /\ pc[t] = "send_body" => HalfSent(sock, ncalls)
  /\ pc[t] = "recv" => Sent(sock, ncalls)
  /\ pc[t] = "body" => HalfRead(sock, ncalls)
  /\ pc[t] = "release" => \/ reply[t] = NULL
                          \/ reply[t] = ncalls /\ ncalls \in ToSet(executed)

\* A connection that will be used again has nothing of an old request on it.
LineSound == up /\ connecting /\ (\A t \in Caller : ~ OnLine(t)) => sock \in Conn /\ Quiet(sock)

\* What the daemon finds on a connection is one request at most, which is the
\* one under way or was given up.
ConnSound(c) ==
  /\ spc[c] \in {"off", "exec", "head", "body", "ended"} => inbox[c] = <<>>
  /\ spc[c] = "half" => inbox[c] \in {<<>>, <<B(serving[c])>>}
  /\ spc[c] = "read" => inbox[c] = <<>> \/ \E n \in Call : inbox[c] \in {<<H(n)>>, <<H(n), B(n)>>}
  /\ spc[c] = "ended" => c # sock /\ c <= nconn
  /\ Pre(c) \cap ToSet(executed) = {}
  /\ \A n \in Working(c) : /\ n \in 1 .. ncalls
                           /\ n \in givenUp \/ (c = sock /\ n = ncalls /\ \E t \in Caller : OnLine(t))

\* No request is on two connections.
Distinct == \A c, d \in Conn : c # d => Pre(c) \cap Pre(d) = {}

ClientInv ==
  /\ TypeOK /\ OneCall /\ Numbers /\ Fresh /\ LineSound /\ Distinct
  /\ \A t \in Caller : CallerSound(t)
  /\ \A c \in Conn : ConnSound(c)

-----------------------------------------------------------------------------
(* Sequences.                                                              *)

\* Sequences of two parts at most.
LEMMA Tuples ==
  ASSUME NEW a, NEW b
  PROVE  /\ Append(<<>>, a) = <<a>> /\ Append(<<a>>, b) = <<a, b>>
         /\ Head(<<a>>) = a /\ Head(<<a, b>>) = a
         /\ Tail(<<a>>) = <<>> /\ Tail(<<a, b>>) = <<b>>
         /\ ToSet(<<>>) = {} /\ ToSet(<<a>>) = {a} /\ ToSet(<<a, b>>) = {a, b}
         /\ <<a>> # <<>> /\ <<a, b>> # <<>>
<1>1. Append(<<>>, a) = <<a>>
  OBVIOUS
<1>2. Append(<<a>>, b) = <<a, b>>
  <2>1. <<a>> \in Seq({a, b}) /\ Len(<<a>>) = 1 /\ <<a>>[1] = a
    OBVIOUS
  <2> DEFINE s == <<a>>
             r == Append(s, b)
  <2> HIDE DEF s
  <2>2. r \in Seq({a, b}) /\ Len(r) = 2
    BY <2>1 DEF s
  <2>3. r[1] = a /\ r[2] = b
    BY <2>1 DEF s
  <2> HIDE DEF r
  <2>4. r = <<a, b>>
    BY <2>2, <2>3
  <2> QED
    BY <2>4 DEF r, s
<1>3. Head(<<a>>) = a /\ Head(<<a, b>>) = a
  OBVIOUS
<1>4. Tail(<<a>>) = <<>> /\ Tail(<<a, b>>) = <<b>>
  OBVIOUS
<1>5. <<a>> # <<>> /\ <<a, b>> # <<>>
  OBVIOUS
<1>6. ToSet(<<>>) = {} /\ ToSet(<<a>>) = {a}
  BY DEF ToSet
<1>7. ToSet(<<a, b>>) = {a, b}
  BY DEF ToSet
<1> QED
  BY <1>1, <1>2, <1>3, <1>6, <1>7, <1>4, <1>5

\* What Append adds.
LEMMA ToSetAppend ==
  ASSUME NEW S, NEW s \in Seq(S), NEW x
  PROVE  ToSet(Append(s, x)) = ToSet(s) \cup {x}
<1>1. DOMAIN Append(s, x) = 1 .. Len(s) + 1 /\ DOMAIN s = 1 .. Len(s) /\ Len(s) \in Nat
  OBVIOUS
<1>2. \A i \in 1 .. Len(s) : Append(s, x)[i] = s[i]
  OBVIOUS
<1>3. Append(s, x)[Len(s) + 1] = x
  OBVIOUS
<1> QED
  BY <1>1, <1>2, <1>3 DEF ToSet

\* A sequence keeps its type.
LEMMA SeqTypes ==
  ASSUME NEW S, NEW s \in Seq(S)
  PROVE  /\ <<>> \in Seq(S)
         /\ \A x \in S : Append(s, x) \in Seq(S)
         /\ s # <<>> => Tail(s) \in Seq(S) /\ Head(s) \in S
  OBVIOUS

-----------------------------------------------------------------------------
(* The client.                                                             *)

\* At first the client is connected and nothing is asked.
LEMMA InitClient == Init => ClientInv
<1> SUFFICES ASSUME Init PROVE ClientInv
  OBVIOUS
<1> USE BoundAssumption DEF Init
<1>1. /\ \A c \in Conn : inbox[c] = <<>> /\ outbox[c] = <<>> /\ spc[c] \in {"off", "read"}
      /\ \A c \in Conn : c # 1 => spc[c] = "off"
      /\ 1 \in Conn /\ nconn = 1 /\ sock = 1 /\ \A c \in Conn : c \in Nat
  BY DEF Conn
<1>2. \A t \in Caller : pc[t] = "idle"
  OBVIOUS
<1>3. TypeOK
  <2>1. inbox \in [Conn -> Seq(Parts)] /\ outbox \in [Conn -> Seq(Parts)] /\ executed \in Seq(Call)
    OBVIOUS
  <2>2. spc \in [Conn -> {"off", "read", "half", "exec", "head", "body", "ended"}]
    OBVIOUS
  <2>3. /\ pc \in [Caller -> {"idle", "acquire", "reconnect", "send", "send_body", "recv",
                            "body", "release"}]
        /\ req \in [Caller -> Call \cup {NULL}] /\ reply \in [Caller -> Call \cup {NULL}]
        /\ serving \in [Conn -> Call \cup {NULL}]
    OBVIOUS
  <2>4. /\ ncalls \in 0 .. MaxCalls /\ givenUp \in SUBSET Call
        /\ sock \in Conn \cup {NULL} /\ nconn \in Conn /\ retry \in 0 .. Retries
        /\ ncrash \in 0 .. MaxCrash
    BY <1>1
  <2> QED
    BY <2>1, <2>2, <2>3, <2>4 DEF TypeOK
<1>4. ToSet(executed) = {}
  BY Tuples
<1>5. \A c \in Conn : Working(c) = {} /\ Pre(c) = {}
  <2> SUFFICES ASSUME NEW c \in Conn PROVE Working(c) = {} /\ Pre(c) = {}
    OBVIOUS
  <2>1. inbox[c] = <<>> /\ spc[c] \in {"read", "off"}
    OBVIOUS
  <2>2. ToSet(inbox[c]) = {}
    BY <2>1 DEF ToSet
  <2> QED
    BY <2>1, <2>2 DEF Working, Pre
<1>6. OneCall /\ Numbers /\ Fresh /\ LineSound
  BY <1>1, <1>2, <1>4 DEF OneCall, InCall, Numbers, Fresh, LineSound, Quiet
<1>7. \A t \in Caller : CallerSound(t)
  BY <1>2 DEF CallerSound, InCall, OnLine
<1>8. \A c \in Conn : ConnSound(c)
  BY <1>1, <1>5 DEF ConnSound
<1> QED
  BY <1>3, <1>5, <1>6, <1>7, <1>8 DEF ClientInv, Distinct

\* A step of one caller.
LEMMA Going ==
  ASSUME TypeOK, NEW t \in Caller, NEW l, Go(t, l)
  PROVE  pc'[t] = l /\ \A u \in Caller : u # t => pc'[u] = pc[u]
  BY DEF TypeOK, Go

\* The numbers and sets the proofs compute with.
LEMMA Kinds ==
  ASSUME TypeOK
  PROVE  /\ ncalls \in Nat /\ nconn \in Nat \ {0} /\ nconn <= MaxConn /\ ncalls <= MaxCalls
         /\ MaxConn \in Nat /\ MaxCalls \in Nat
         /\ \A c \in Conn : c \in Nat /\ c # NULL
         /\ \A n \in Call : n \in Nat /\ n # NULL
  BY BoundAssumption DEF TypeOK, Conn, Call

\* What the daemon's end of the connections keeps when only callers move.
LEMMA ConnFrame ==
  ASSUME ClientInv, UNCHANGED <<inbox, spc, serving, executed, nconn>>,
         sock' \in {sock, NULL}, ncalls' \in {ncalls, ncalls + 1}, givenUp \subseteq givenUp',
         (\E t \in Caller : OnLine(t)) =>
           \/ sock' = sock /\ ncalls' = ncalls /\ (\E t \in Caller : OnLine(t)')
           \/ ncalls \in givenUp'
  PROVE  (\A c \in Conn : ConnSound(c)') /\ Distinct' /\ Numbers
<1> USE DEF ClientInv
<1>1. \A c \in Conn : Pre(c)' = Pre(c) /\ Working(c)' = Working(c)
  BY DEF Pre, Working
<1>2. ASSUME NEW c \in Conn PROVE ConnSound(c)'
  <2>1. ConnSound(c) /\ ncalls \in Nat /\ c # NULL
    BY Kinds
  <2>2. \A n \in 1 .. ncalls : n \in 1 .. ncalls'
    BY <2>1
  <2>3. \A n \in Working(c) : /\ n \in 1 .. ncalls'
                               /\ \/ n \in givenUp'
                                  \/ c = sock' /\ n = ncalls' /\ \E t \in Caller : OnLine(t)'
    BY <2>1, <2>2 DEF ConnSound
  <2> QED
    BY <1>1, <2>1, <2>3 DEF ConnSound
<1> QED
  BY <1>1, <1>2 DEF Distinct

\* The start of _send_request touches nothing.
LEMMA CallStep ==
  ASSUME ClientInv, NEW t \in Caller, _send_request(t)
  PROVE  ClientInv'
<1> USE DEF ClientInv, _send_request, log_analy, daemon
<1>1. pc'[t] = "acquire" /\ \A u \in Caller : u # t => pc'[u] = pc[u]
  BY Going
<1>2. \A u \in Caller : InCall(u)' = InCall(u) /\ OnLine(u)' = OnLine(u) /\ (InCall(u) => pc'[u] = pc[u])
  BY <1>1 DEF InCall, OnLine
<1>3. TypeOK'
  BY DEF TypeOK, Go
<1>4. (\A c \in Conn : ConnSound(c)') /\ Distinct'
  BY <1>2, ConnFrame
<1>5. OneCall'
  BY <1>2 DEF OneCall
<1>6. \A u \in Caller : CallerSound(u)'
  BY <1>1, <1>2 DEF CallerSound, HalfSent, Sent, HalfRead, InCall, OnLine
<1>7. Numbers' /\ Fresh' /\ LineSound'
  BY <1>2 DEF Numbers, Fresh, LineSound, Quiet
<1> QED
  BY <1>3, <1>4, <1>5, <1>6, <1>7

\* Who gets the mutex is alone, and finds a connection that is quiet or to be made.
LEMMA AcquireStep ==
  ASSUME ClientInv, NEW t \in Caller, _send_request_acquire(t)
  PROVE  ClientInv'
<1> USE DEF ClientInv
<1> DEFINE l == IF ncalls = MaxCalls THEN "idle" ELSE IF connecting THEN "send" ELSE "reconnect"
<1>1. Go(t, l) /\ l \in {"idle", "send", "reconnect"}
  BY DEF _send_request_acquire
<1>2. \/ ncalls' = ncalls /\ l = "idle" /\ UNCHANGED <<mutex, req, reply, retry>>
      \/ /\ mutex' = TRUE /\ ncalls' = ncalls + 1 /\ ncalls # MaxCalls
         /\ req' = [req EXCEPT ![t] = ncalls + 1]
         /\ reply' = [reply EXCEPT ![t] = NULL]
         /\ retry' = (IF connecting THEN retry ELSE 0)
         /\ l = (IF connecting THEN "send" ELSE "reconnect")
  BY DEF _send_request_acquire
<1> HIDE DEF l
<1>3. pc'[t] = l /\ \A u \in Caller : u # t => pc'[u] = pc[u]
  BY <1>1, Going
<1>4. /\ pc[t] = "acquire" /\ mutex = FALSE
      /\ UNCHANGED <<connecting, sock, up, ncrash, givenUp, nconn, inbox, outbox, daemon>>
  BY DEF _send_request_acquire, Free
<1>5. /\ \A u \in Caller : ~ InCall(u)
      /\ \A u \in Caller : u # t => ~ InCall(u)'
      /\ \A u \in Caller : ~ OnLine(u) /\ ~ OnLine(u)'
  BY <1>1, <1>3, <1>4 DEF OneCall, InCall, OnLine
<1>6. ncalls \in Nat /\ MaxCalls \in Nat /\ ncalls <= MaxCalls
  BY Kinds
<1>7. TypeOK'
  <2>1. pc' \in [Caller -> {"idle", "acquire", "reconnect", "send", "send_body", "recv",
                           "body", "release"}]
    BY <1>1 DEF TypeOK, Go
  <2>2. ncalls' \in 0 .. MaxCalls
    BY <1>2, <1>6
  <2>3. mutex' \in BOOLEAN
    BY <1>2 DEF TypeOK
  <2>4. retry' \in 0 .. Retries
    BY <1>2, BoundAssumption DEF TypeOK
  <2>5. ncalls # MaxCalls => ncalls + 1 \in Call
    BY <1>6 DEF Call
  <2>6. req' \in [Caller -> Call \cup {NULL}] /\ reply' \in [Caller -> Call \cup {NULL}]
    BY <1>2, <2>5 DEF TypeOK
  <2> QED
    BY <1>4, <2>1, <2>2, <2>3, <2>4, <2>6 DEF TypeOK, daemon
<1>8. (\A c \in Conn : ConnSound(c)') /\ Distinct'
  BY <1>4, <1>5, <1>2, ConnFrame DEF daemon
<1>9. OneCall'
  BY <1>3, <1>4, <1>5, <1>2, <1>6 DEF OneCall, InCall, TypeOK
<1>10. CallerSound(t)'
  <2>1. CASE l = "idle"
    BY <1>3, <2>1 DEF CallerSound, InCall, OnLine
  <2>2. CASE l # "idle"
    <3>1. reply'[t] = NULL
      BY <1>2, <2>2 DEF TypeOK
    <3>2. ncalls' \notin givenUp' /\ ncalls' \notin ToSet(executed)'
      BY <1>4, <1>2, <1>6, <2>2 DEF Numbers, daemon
    <3>3. l = "reconnect" => ~ connecting' /\ retry' < Retries
      BY <1>4, <1>2, <2>2, BoundAssumption
    <3>4. l = "send" => connecting'
      BY <1>4, <1>2, <2>2
    <3> QED
      BY <1>1, <1>3, <3>1, <3>2, <3>3, <3>4, <2>2 DEF CallerSound, OnLine
  <2> QED
    BY <2>1, <2>2
<1>11. \A u \in Caller : u # t => CallerSound(u)'
  BY <1>5 DEF CallerSound, InCall, OnLine
<1>12. Numbers' /\ Fresh' /\ LineSound'
  BY <1>4, <1>5, <1>2, <1>6 DEF Numbers, Fresh, LineSound, Quiet, daemon
<1> QED
  BY <1>7, <1>8, <1>9, <1>10, <1>11, <1>12

\* A new connection is quiet.
LEMMA ReconnectStep ==
  ASSUME ClientInv, NEW t \in Caller, _reconncet(t)
  PROVE  ClientInv'
<1> USE DEF ClientInv
<1> DEFINE c == nconn + 1
<1>1. /\ pc[t] = "reconnect" /\ nconn' = c /\ sock' = c /\ connecting' = TRUE
      /\ spc' = [spc EXCEPT ![c] = "read"]
      /\ UNCHANGED <<mutex, retry, up, ncrash, req, reply, ncalls, givenUp, inbox, outbox,
                      alive, serving, executed>>
  BY DEF _reconncet, ServerGo
<1>2. pc'[t] = "send" /\ \A u \in Caller : u # t => pc'[u] = pc[u]
  BY Going DEF _reconncet
<1>3. /\ c \in Conn /\ c > nconn /\ nconn \in Nat /\ ncalls \in Nat
      /\ \A d \in Conn : d \in Nat /\ d # NULL
  BY Kinds DEF _reconncet, Conn
<1>4. /\ \A u \in Caller : InCall(u) <=> u = t
      /\ \A u \in Caller : InCall(u)' <=> u = t
      /\ \A u \in Caller : ~ OnLine(u) /\ ~ OnLine(u)'
  BY <1>1, <1>2 DEF OneCall, InCall, OnLine
<1>5. inbox[c] = <<>> /\ outbox[c] = <<>> /\ spc[c] = "off"
  BY <1>3 DEF Fresh
<1>6. spc'[c] = "read" /\ \A d \in Conn : d # c => spc'[d] = spc[d]
  BY <1>1, <1>3 DEF TypeOK
<1>7. TypeOK'
  <2>1. pc' \in [Caller -> {"idle", "acquire", "reconnect", "send", "send_body", "recv",
                           "body", "release"}]
    BY DEF TypeOK, _reconncet, Go
  <2>2. spc' \in [Conn -> {"off", "read", "half", "exec", "head", "body", "ended"}]
    BY <1>1 DEF TypeOK
  <2> QED
    BY <1>1, <1>3, <2>1, <2>2 DEF TypeOK
<1>8. \A d \in Conn : Pre(d)' = Pre(d) /\ Working(d)' = Working(d)
  BY <1>1, <1>5, <1>6 DEF Pre, Working
<1>9. ASSUME NEW d \in Conn PROVE ConnSound(d)'
  <2>1. ConnSound(d)
    OBVIOUS
  <2>2. spc'[d] = "ended" => d # sock' /\ d <= nconn'
    BY <1>1, <1>3, <1>6, <2>1 DEF ConnSound
  <2>3. \A n \in Working(d) : n \in 1 .. ncalls /\ n \in givenUp
    BY <1>4, <2>1 DEF ConnSound
  <2>4. CASE d = c
    BY <1>1, <1>5, <1>6, <1>8, <2>1, <2>2, <2>3, <2>4 DEF ConnSound
  <2>5. CASE d # c
    BY <1>1, <1>6, <1>8, <2>1, <2>2, <2>3, <2>5 DEF ConnSound
  <2> QED
    BY <2>4, <2>5
<1>10. OneCall'
  BY <1>1, <1>2, <1>4 DEF OneCall, InCall
<1>11. CallerSound(t)'
  BY <1>1, <1>2 DEF CallerSound, InCall, OnLine
<1>12. \A u \in Caller : u # t => CallerSound(u)'
  BY <1>4 DEF CallerSound, InCall, OnLine
<1>13. Numbers' /\ Fresh' /\ LineSound' /\ Distinct'
  <2>1. Numbers'
    BY <1>1, <1>3 DEF Numbers
  <2>2. Fresh'
    BY <1>1, <1>3, <1>6 DEF Fresh
  <2>3. LineSound'
    BY <1>1, <1>3, <1>5, <1>6 DEF LineSound, Quiet
  <2>4. Distinct'
    BY <1>8 DEF Distinct
  <2> QED
    BY <2>1, <2>2, <2>3, <2>4
<1> QED
  BY <1>7, <1>9, <1>10, <1>11, <1>12, <1>13

\* Without a connection nothing is sent.
LEMMA ReconnectFailsStep ==
  ASSUME ClientInv, NEW t \in Caller, _reconncet_fails(t)
  PROVE  ClientInv'
<1> USE DEF ClientInv
<1>1. /\ pc[t] = "reconnect" /\ sock' = NULL /\ retry' = retry + 1
      /\ UNCHANGED <<mutex, connecting, up, ncrash, req, reply, ncalls, givenUp, nconn,
                      inbox, outbox, daemon>>
  BY DEF _reconncet_fails
<1>2. /\ pc'[t] = (IF retry + 1 < Retries THEN "reconnect" ELSE "send")
      /\ \A u \in Caller : u # t => pc'[u] = pc[u]
  <2>1. CASE retry + 1 < Retries
    BY <2>1 DEF _reconncet_fails
  <2>2. CASE ~ (retry + 1 < Retries)
    <3>1. Go(t, "send")
      BY <2>2 DEF _reconncet_fails
    <3> QED
      BY <2>2, <3>1, Going
  <2> QED
    BY <2>1, <2>2
<1>3. /\ retry < Retries /\ ~ connecting /\ retry \in Nat
  BY <1>1, BoundAssumption DEF CallerSound, TypeOK
<1>4. /\ \A u \in Caller : InCall(u) <=> u = t
      /\ \A u \in Caller : InCall(u)' <=> u = t
      /\ \A u \in Caller : ~ OnLine(u) /\ ~ OnLine(u)'
  BY <1>1, <1>2 DEF OneCall, InCall, OnLine
<1>5. TypeOK'
  <2>1. pc' \in [Caller -> {"idle", "acquire", "reconnect", "send", "send_body", "recv",
                           "body", "release"}]
    BY DEF TypeOK, _reconncet_fails, Go
  <2>2. retry' \in 0 .. Retries
    BY <1>1, <1>3, BoundAssumption
  <2> QED
    BY <1>1, <2>1, <2>2 DEF TypeOK, daemon
<1>6. (\A c \in Conn : ConnSound(c)') /\ Distinct'
  BY <1>1, <1>4, ConnFrame, Kinds DEF daemon
<1>7. OneCall'
  BY <1>1, <1>2, <1>4 DEF OneCall, InCall
<1>8. CallerSound(t)'
  <2>1. CASE retry + 1 < Retries
    BY <1>1, <1>2, <2>1 DEF CallerSound, InCall, OnLine, daemon
  <2>2. CASE ~ (retry + 1 < Retries)
    BY <1>1, <1>2, <2>2 DEF CallerSound, InCall, OnLine, daemon
  <2> QED
    BY <2>1, <2>2
<1>9. \A u \in Caller : u # t => CallerSound(u)'
  BY <1>4 DEF CallerSound, InCall, OnLine
<1>10. Numbers' /\ Fresh' /\ LineSound'
  BY <1>1, <1>3 DEF Numbers, Fresh, LineSound, daemon
<1> QED
  BY <1>5, <1>6, <1>7, <1>8, <1>9, <1>10

\* What is given up is remembered, and its connection is not used again.
LEMMA ExceptStep ==
  ASSUME ClientInv, NEW t \in Caller, _send_request_except(t)
  PROVE  ClientInv'
<1> USE DEF ClientInv
<1>1. /\ pc[t] \in {"send", "send_body", "recv", "body"}
      /\ connecting' = FALSE /\ givenUp' = givenUp \cup {req[t]}
      /\ UNCHANGED <<mutex, sock, retry, up, ncrash, req, reply, ncalls, nconn, inbox, outbox, daemon>>
  BY DEF _send_request_except, Fails
<1>2. pc'[t] = "release" /\ \A u \in Caller : u # t => pc'[u] = pc[u]
  BY Going DEF _send_request_except
<1>3. /\ \A u \in Caller : InCall(u) <=> u = t
      /\ \A u \in Caller : InCall(u)' <=> u = t
      /\ \A u \in Caller : ~ OnLine(u)'
      /\ \A u \in Caller : OnLine(u) => InCall(u)
      /\ req[t] = ncalls /\ ncalls # 0 /\ reply[t] = NULL
  BY <1>1, <1>2 DEF OneCall, InCall, OnLine, CallerSound
<1>4. ncalls \in 1 .. ncalls /\ ncalls \in Call
  BY <1>3, Kinds DEF Call
<1>5. TypeOK'
  <2>1. pc' \in [Caller -> {"idle", "acquire", "reconnect", "send", "send_body", "recv",
                           "body", "release"}]
    BY DEF TypeOK, _send_request_except, Go
  <2> QED
    BY <1>1, <1>3, <1>4, <2>1 DEF TypeOK, daemon
<1>6. (\A c \in Conn : ConnSound(c)') /\ Distinct'
  BY <1>1, <1>3, ConnFrame DEF daemon
<1>7. OneCall'
  BY <1>1, <1>2, <1>3 DEF OneCall, InCall
<1>8. CallerSound(t)'
  BY <1>1, <1>2, <1>3 DEF CallerSound, OnLine
<1>9. \A u \in Caller : u # t => CallerSound(u)'
  BY <1>3 DEF CallerSound, InCall, OnLine
<1>10. Numbers' /\ Fresh' /\ LineSound'
  BY <1>1, <1>3, <1>4 DEF Numbers, Fresh, LineSound, daemon
<1> QED
  BY <1>5, <1>6, <1>7, <1>8, <1>9, <1>10

\* The mutex is free when nobody is in a call.
LEMMA ReleaseStep ==
  ASSUME ClientInv, NEW t \in Caller, _send_request_release(t)
  PROVE  ClientInv'
<1> USE DEF ClientInv
<1>1. /\ pc[t] = "release" /\ mutex' = FALSE
      /\ UNCHANGED <<connecting, sock, retry, up, ncrash, req, reply, ncalls, givenUp, nconn,
                      inbox, outbox, daemon>>
  BY DEF _send_request_release
<1>2. pc'[t] = "idle" /\ \A u \in Caller : u # t => pc'[u] = pc[u]
  BY Going DEF _send_request_release
<1>3. /\ \A u \in Caller : InCall(u) <=> u = t
      /\ \A u \in Caller : ~ InCall(u)' /\ ~ OnLine(u) /\ ~ OnLine(u)'
  BY <1>1, <1>2 DEF OneCall, InCall, OnLine
<1>4. TypeOK'
  BY <1>1 DEF TypeOK, _send_request_release, Go, daemon
<1>5. (\A c \in Conn : ConnSound(c)') /\ Distinct'
  BY <1>1, <1>3, ConnFrame DEF daemon
<1>6. OneCall'
  BY <1>1, <1>2, <1>3 DEF OneCall, InCall
<1>7. \A u \in Caller : CallerSound(u)'
  BY <1>3 DEF CallerSound, InCall, OnLine
<1>8. Numbers' /\ Fresh' /\ LineSound'
  BY <1>1, <1>3 DEF Numbers, Fresh, LineSound, Quiet, daemon
<1> QED
  BY <1>4, <1>5, <1>6, <1>7, <1>8

\* What is sent goes on a connection that holds nothing but its own start.
LEMMA SendStep ==
  ASSUME ClientInv, NEW t \in Caller, _send_request_send(t)
  PROVE  ClientInv'
<1> USE DEF ClientInv
<1> DEFINE c == sock
           n == ncalls
           part == Part(IF pc[t] = "send" THEN "head" ELSE "body", n)
<1>1. /\ pc[t] \in {"send", "send_body"} /\ c # NULL
      /\ UNCHANGED <<mutex, connecting, sock, retry, up, ncrash, req, reply, ncalls, givenUp, nconn,
                      outbox, alive, spc, serving, executed>>
  BY DEF _send_request_send, log_analy, daemon
<1>2. /\ pc'[t] = (IF pc[t] = "send" THEN "send_body" ELSE "recv")
      /\ \A u \in Caller : u # t => pc'[u] = pc[u]
  BY Going DEF _send_request_send
<1>3. /\ \A u \in Caller : InCall(u) <=> u = t
      /\ \A u \in Caller : InCall(u)' <=> u = t
      /\ \A u \in Caller : OnLine(u)' <=> u = t
      /\ req[t] = n /\ n # 0 /\ reply[t] = NULL /\ n \notin givenUp /\ up
  BY <1>1, <1>2 DEF OneCall, InCall, OnLine, CallerSound
<1>4. c \in Conn /\ n \in Call /\ n \in 1 .. n /\ c <= nconn
  BY <1>1, <1>3, Kinds DEF TypeOK, Call, Numbers
<1>5. inbox' = IF spc[c] = "off" THEN inbox ELSE [inbox EXCEPT ![c] = Append(@, part)]
  BY <1>1, <1>3 DEF _send_request_send
<1>6. part \in Parts /\ inbox[c] \in Seq(Parts)
  BY <1>1, <1>4 DEF Part, Parts, TypeOK
<1>7. TypeOK'
  <2>1. pc' \in [Caller -> {"idle", "acquire", "reconnect", "send", "send_body", "recv",
                           "body", "release"}]
    BY DEF TypeOK, _send_request_send, Go
  <2>2. inbox' \in [Conn -> Seq(Parts)]
    <3>1. Append(inbox[c], part) \in Seq(Parts)
      BY <1>6, SeqTypes
    <3> HIDE DEF part
    <3> QED
      BY <1>5, <3>1 DEF TypeOK
  <2> QED
    BY <1>1, <2>1, <2>2 DEF TypeOK
<1>8. \A d \in Conn : d # c => inbox'[d] = inbox[d]
  BY <1>4, <1>5 DEF TypeOK
<1>9. inbox'[c] = IF spc[c] = "off" THEN inbox[c] ELSE Append(inbox[c], part)
  BY <1>4, <1>5 DEF TypeOK
<1>10. /\ n \notin ToSet(executed) /\ outbox[c] = <<>>
       /\ \/ spc[c] = "off" /\ inbox'[c] = <<>>
          \/ pc[t] = "send" /\ spc[c] = "read" /\ inbox[c] = <<>> /\ inbox'[c] = <<H(n)>>
          \/ pc[t] = "send_body" /\ spc[c] = "read" /\ inbox[c] = <<H(n)>> /\ inbox'[c] = <<H(n), B(n)>>
          \/ pc[t] = "send_body" /\ spc[c] = "half" /\ inbox[c] = <<>> /\ inbox'[c] = <<B(n)>> /\ serving[c] = n
  <2>1. CASE pc[t] = "send"
    <3>1. connecting /\ \A u \in Caller : ~ OnLine(u)
      BY <1>1, <1>3, <2>1 DEF CallerSound, OnLine, InCall
    <3>2. Quiet(c)
      BY <1>3, <3>1 DEF LineSound
    <3>3. n \notin ToSet(executed)
      BY <2>1 DEF CallerSound
    <3>4. part = H(n)
      BY <2>1 DEF H
    <3> HIDE DEF part
    <3>5. Append(<<>>, part) = <<part>>
      BY Tuples
    <3> QED
      BY <1>9, <2>1, <3>2, <3>3, <3>4, <3>5 DEF Quiet
  <2>2. CASE pc[t] = "send_body"
    <3>1. HalfSent(c, n)
      BY <2>2 DEF CallerSound
    <3>2. part = B(n)
      BY <2>2 DEF B
    <3>3. spc[c] = "off" => inbox[c] = <<>>
      BY <1>4 DEF ConnSound
    <3> HIDE DEF part
    <3>4. Append(<<>>, part) = <<part>> /\ Append(<<H(n)>>, part) = <<H(n), part>>
      BY Tuples
    <3> QED
      BY <1>9, <2>2, <3>1, <3>2, <3>3, <3>4 DEF HalfSent
  <2> QED
    BY <1>1, <2>1, <2>2
<1> HIDE DEF part
<1>11. \A d \in Conn : d # c => Pre(d)' = Pre(d) /\ Working(d)' = Working(d)
  BY <1>1, <1>8 DEF Pre, Working
<1>12. Pre(c)' \in {{}, {n}} /\ Working(c)' \in {{}, {n}}
  <2>1. ToSet(inbox'[c]) = {} \/ ToSet(inbox'[c]) = {H(n)} \/ ToSet(inbox'[c]) = {H(n), B(n)}
        \/ ToSet(inbox'[c]) = {B(n)}
    <3>1. \/ inbox'[c] = <<>> \/ inbox'[c] = <<H(n)>> \/ inbox'[c] = <<H(n), B(n)>>
          \/ inbox'[c] = <<B(n)>>
      BY <1>10
    <3> QED
      BY <3>1, Tuples
  <2>2. H(n).call = n /\ B(n).call = n
    BY DEF H, B, Part
  <2>3. {p.call : p \in ToSet(inbox'[c])} \in {{}, {n}}
    BY <2>1, <2>2
  <2>4. spc'[c] = spc[c] /\ serving'[c] = serving[c]
    BY <1>1
  <2>5. Pre(c)' \in {{}, {n}} /\ Working(c)' = Pre(c)'
    <3> DEFINE X == {p.call : p \in ToSet(inbox'[c])}
    <3>1. c' = c
      BY <1>1
    <3>2. Pre(c)' = X \cup (IF spc[c] \in {"half", "exec"} THEN {serving[c]} ELSE {})
      BY <2>4, <3>1 DEF Pre
    <3>3. spc[c] = "half" => serving[c] = n
      BY <1>10
    <3>4. spc[c] \in {"off", "read", "half"}
      BY <1>10
    <3>5. Working(c)' = Pre(c)'
      BY <2>4, <3>1, <3>4 DEF Working
    <3> HIDE DEF X
    <3>6. X \in {{}, {n}}
      BY <2>3 DEF X
    <3> QED
      BY <3>2, <3>3, <3>4, <3>5, <3>6
  <2> QED
    BY <2>5
<1>13. \A d \in Conn : d # c => n \notin Pre(d)
  BY <1>3 DEF ConnSound, Working
<1>14. ASSUME NEW d \in Conn PROVE ConnSound(d)'
  <2>1. CASE d = c
    <3>1. Pre(c)' \cap ToSet(executed)' = {}
      BY <1>1, <1>10, <1>12
    <3>2. \A m \in Working(c)' : /\ m \in 1 .. ncalls'
                                 /\ c = sock' /\ m = ncalls' /\ \E u \in Caller : OnLine(u)'
      BY <1>1, <1>3, <1>4, <1>12
    <3>3. spc'[c] = spc[c] /\ serving'[c] = serving[c] /\ n \in Call
      BY <1>1, <1>3, <1>4
    <3>4. /\ spc'[c] \in {"off", "exec", "head", "body", "ended"} => inbox'[c] = <<>>
          /\ spc'[c] = "half" => inbox'[c] \in {<<>>, <<B(serving'[c])>>}
          /\ spc'[c] = "read" => inbox'[c] = <<>> \/ \E m \in Call : inbox'[c] \in {<<H(m)>>, <<H(m), B(m)>>}
          /\ spc'[c] # "ended"
      BY <1>10, <3>3
    <3>5. Pre(d)' = Pre(c)' /\ Working(d)' = Working(c)' /\ sock' = c
      BY <1>1, <2>1
    <3> HIDE DEF c, n
    <3> QED
      BY <2>1, <3>1, <3>2, <3>4, <3>5 DEF ConnSound
  <2>2. CASE d # c
    BY <1>1, <1>3, <1>8, <1>11, <2>2 DEF ConnSound
  <2> QED
    BY <2>1, <2>2
<1>15. Distinct'
  BY <1>1, <1>11, <1>12, <1>13 DEF Distinct
<1>16. OneCall'
  BY <1>1, <1>2, <1>3 DEF OneCall, InCall
<1>17. CallerSound(t)'
  <2>1. CASE pc[t] = "send"
    <3>1. HalfSent(c, n)'
      BY <1>1, <1>10, <2>1 DEF HalfSent
    <3> QED
      BY <1>1, <1>2, <1>3, <1>4, <2>1, <3>1 DEF CallerSound, OnLine
  <2>2. CASE pc[t] = "send_body"
    <3>1. Sent(c, n)'
      BY <1>1, <1>10, <2>2 DEF Sent
    <3> QED
      BY <1>1, <1>2, <1>3, <1>4, <2>2, <3>1 DEF CallerSound, OnLine
  <2> QED
    BY <1>1, <2>1, <2>2
<1>18. \A u \in Caller : u # t => CallerSound(u)'
  BY <1>3 DEF CallerSound, InCall, OnLine
<1>19. Numbers' /\ Fresh' /\ LineSound'
  <2>1. Fresh'
    BY <1>1, <1>4, <1>8, Kinds DEF Fresh
  <2> QED
    BY <1>1, <1>3, <2>1 DEF Numbers, LineSound
<1> QED
  BY <1>7, <1>14, <1>15, <1>16, <1>17, <1>18, <1>19

\* What is read is the reply to what was sent.
LEMMA RecvStep ==
  ASSUME ClientInv, NEW t \in Caller, _send_request_recv(t)
  PROVE  ClientInv'
<1> USE DEF ClientInv
<1> DEFINE c == sock
           n == ncalls
<1>1. /\ pc[t] \in {"recv", "body"} /\ outbox[c] # <<>>
      /\ outbox' = [outbox EXCEPT ![c] = Tail(@)]
      /\ UNCHANGED <<mutex, connecting, sock, retry, up, ncrash, req, ncalls, givenUp, nconn,
                      inbox, alive, spc, serving, executed>>
  BY DEF _send_request_recv, log_analy, daemon
<1>2. /\ pc'[t] = (IF pc[t] = "recv" THEN "body" ELSE "release")
      /\ \A u \in Caller : u # t => pc'[u] = pc[u]
  BY Going DEF _send_request_recv
<1>3. /\ \A u \in Caller : InCall(u) <=> u = t
      /\ \A u \in Caller : InCall(u)' <=> u = t
      /\ \A u \in Caller : OnLine(u) <=> u = t
      /\ \A u \in Caller : OnLine(u)' <=> u = t /\ pc[t] = "recv"
      /\ req[t] = n /\ n # 0 /\ reply[t] = NULL /\ n \notin givenUp /\ up
  BY <1>1, <1>2 DEF OneCall, InCall, OnLine, CallerSound
<1>4. c \in Conn /\ n \in Call /\ c <= nconn
  <2>1. c \in Conn
    BY <1>3 DEF CallerSound
  <2> QED
    BY <1>3, <2>1, Kinds DEF Call, Numbers
<1>5. \A d \in Conn : outbox'[d] = IF d = c THEN Tail(outbox[c]) ELSE outbox[d]
  BY <1>1, <1>4 DEF TypeOK
<1>6. /\ n \in ToSet(executed)
      /\ \/ /\ pc[t] = "recv"
            /\ \/ spc[c] = "off" /\ outbox'[c] \in {<<>>, <<B(n)>>}
               \/ spc[c] = "body" /\ serving[c] = n /\ outbox'[c] = <<>>
               \/ spc[c] = "read" /\ inbox[c] = <<>> /\ outbox'[c] = <<B(n)>>
         \/ /\ pc[t] = "body" /\ outbox'[c] = <<>> /\ Head(outbox[c]).call = n
            /\ spc[c] \in {"off", "read"} /\ inbox[c] = <<>>
  <2>1. /\ Tail(<<H(n)>>) = <<>> /\ Tail(<<H(n), B(n)>>) = <<B(n)>>
        /\ Tail(<<B(n)>>) = <<>> /\ Head(<<B(n)>>) = B(n) /\ B(n).call = n
    BY Tuples DEF B, Part
  <2>2. CASE pc[t] = "recv"
    <3>1. Sent(c, n)
      BY <2>2 DEF CallerSound
    <3> QED
      BY <1>1, <1>4, <1>5, <2>1, <2>2, <3>1 DEF Sent
  <2>3. CASE pc[t] = "body"
    <3>1. HalfRead(c, n) /\ (spc[c] = "off" => inbox[c] = <<>>)
      BY <1>4, <2>3 DEF CallerSound, ConnSound
    <3> QED
      BY <1>1, <1>4, <1>5, <2>1, <2>3, <3>1 DEF HalfRead
  <2> QED
    BY <1>1, <2>2, <2>3
<1>7. reply' = [reply EXCEPT ![t] = IF pc[t] = "recv" THEN NULL ELSE n]
  <2>1. CASE pc[t] = "recv"
    BY <1>3, <2>1 DEF _send_request_recv, TypeOK
  <2>2. CASE pc[t] = "body"
    BY <1>6, <2>2 DEF _send_request_recv
  <2> QED
    BY <1>1, <2>1, <2>2
<1>8. TypeOK'
  <2>1. pc' \in [Caller -> {"idle", "acquire", "reconnect", "send", "send_body", "recv",
                           "body", "release"}]
    BY DEF TypeOK, _send_request_recv, Go
  <2>2. outbox' \in [Conn -> Seq(Parts)]
    <3>1. Tail(outbox[c]) \in Seq(Parts)
      BY <1>1, <1>4, SeqTypes DEF TypeOK
    <3> QED
      BY <1>1, <3>1 DEF TypeOK
  <2>3. reply' \in [Caller -> Call \cup {NULL}]
    BY <1>4, <1>7 DEF TypeOK
  <2> QED
    BY <1>1, <2>1, <2>2, <2>3 DEF TypeOK
<1>9. \A d \in Conn : Pre(d)' = Pre(d) /\ Working(d)' = Working(d)
  BY <1>1 DEF Pre, Working
<1>10. pc[t] = "body" => Working(c) = {}
  <2>1. ASSUME pc[t] = "body" PROVE ToSet(inbox[c]) = {} /\ spc[c] \in {"off", "read"}
    BY <1>6, <2>1, Tuples
  <2> QED
    BY <2>1 DEF Working, Pre
<1>11. ASSUME NEW d \in Conn PROVE ConnSound(d)'
  BY <1>1, <1>3, <1>9, <1>10 DEF ConnSound
<1>12. Distinct'
  BY <1>9 DEF Distinct
<1>13. OneCall'
  BY <1>1, <1>2, <1>3 DEF OneCall, InCall
<1>14. CallerSound(t)'
  <2>1. CASE pc[t] = "recv"
    <3>1. HalfRead(c, n)'
      BY <1>1, <1>6, <2>1 DEF HalfRead
    <3>2. reply'[t] = NULL
      BY <1>7, <2>1 DEF TypeOK
    <3> QED
      BY <1>1, <1>2, <1>3, <1>4, <2>1, <3>1, <3>2 DEF CallerSound, OnLine
  <2>2. CASE pc[t] = "body"
    <3>1. reply'[t] = n
      BY <1>7, <2>2 DEF TypeOK
    <3> QED
      BY <1>1, <1>2, <1>3, <1>6, <2>2, <3>1 DEF CallerSound, OnLine
  <2> QED
    BY <1>1, <2>1, <2>2
<1>15. \A u \in Caller : u # t => CallerSound(u)'
  BY <1>3 DEF CallerSound, InCall, OnLine
<1>16. Numbers' /\ Fresh' /\ LineSound'
  <2>1. Fresh'
    BY <1>1, <1>4, <1>5, Kinds DEF Fresh
  <2>2. LineSound'
    BY <1>1, <1>3, <1>4, <1>6 DEF LineSound, Quiet
  <2> QED
    BY <1>1, <2>1, <2>2 DEF Numbers
<1> QED
  BY <1>8, <1>11, <1>12, <1>13, <1>14, <1>15, <1>16

-----------------------------------------------------------------------------
(* The daemon.                                                             *)

\* What a step of the thread of one connection leaves alone.
LEMMA ServerFrame ==
  ASSUME ClientInv, NEW c \in Conn, spc[c] # "off", c # sock \/ ~ Quiet(c),
         UNCHANGED <<log_analy, callers, nconn>>,
         \A d \in Conn : d # c => /\ inbox'[d] = inbox[d] /\ outbox'[d] = outbox[d]
                                  /\ spc'[d] = spc[d] /\ serving'[d] = serving[d],
         NEW X \in SUBSET Pre(c), ToSet(executed') = ToSet(executed) \cup X
  PROVE  /\ OneCall' /\ Numbers' /\ Fresh' /\ LineSound'
         /\ \A d \in Conn : d # c => ConnSound(d)' /\ Pre(d)' = Pre(d)
         /\ \A t \in Caller : ~ (OnLine(t) /\ c = sock) => CallerSound(t)'
<1> USE DEF ClientInv, log_analy, callers
<1>1. X \subseteq 1 .. ncalls /\ \A n \in X : n \in givenUp \/ (c = sock /\ \E t \in Caller : OnLine(t))
  BY DEF ConnSound, Working
<1>2. OneCall' /\ Numbers'
  BY <1>1 DEF OneCall, InCall, Numbers
<1>3. Fresh'
  BY Kinds DEF Fresh
<1>4. LineSound'
  BY DEF LineSound, Quiet, OnLine
<1>5. ASSUME NEW d \in Conn, d # c PROVE ConnSound(d)' /\ Pre(d)' = Pre(d)
  <2>1. Pre(d)' = Pre(d) /\ Working(d)' = Working(d)
    BY <1>5 DEF Pre, Working
  <2>2. Pre(d) \cap X = {}
    BY <1>5 DEF Distinct
  <2>3. ConnSound(d)
    OBVIOUS
  <2> QED
    BY <1>5, <2>1, <2>2, <2>3 DEF ConnSound, OnLine
<1>6. ASSUME NEW t \in Caller, ~ (OnLine(t) /\ c = sock) PROVE CallerSound(t)'
  <2>1. CallerSound(t)
    OBVIOUS
  <2>2. CASE ~ OnLine(t)
    <3>1. InCall(t) /\ pc[t] # "release" => ncalls \notin X
      <4>1. InCall(t) => \A u \in Caller : ~ OnLine(u)
        BY <2>2 DEF OneCall, OnLine, InCall
      <4> QED
        BY <1>1, <2>1, <4>1 DEF CallerSound
    <3> QED
      BY <2>1, <2>2, <3>1 DEF CallerSound, InCall, OnLine
  <2>3. CASE OnLine(t)
    <3>1. c # sock /\ sock \in Conn /\ ncalls \notin X
      BY <1>1, <1>6, <2>1, <2>3 DEF CallerSound, InCall, OnLine
    <3>2. /\ HalfSent(sock, ncalls) => HalfSent(sock, ncalls)'
          /\ Sent(sock, ncalls) => Sent(sock, ncalls)'
          /\ HalfRead(sock, ncalls) => HalfRead(sock, ncalls)'
      BY <3>1 DEF HalfSent, Sent, HalfRead
    <3> QED
      BY <2>1, <2>3, <3>1, <3>2 DEF CallerSound, InCall, OnLine
  <2> QED
    BY <2>2, <2>3
<1> QED
  BY <1>2, <1>3, <1>4, <1>5, <1>6

\* The caller on the connection has the request the thread works on.
LEMMA OnTheLine ==
  ASSUME ClientInv, NEW t \in Caller, OnLine(t)
  PROVE  /\ sock \in Conn /\ ncalls \in Call /\ ncalls \in 1 .. ncalls
         /\ InCall(t) /\ ncalls \notin givenUp
         /\ \A u \in Caller : OnLine(u) => u = t
  BY Kinds DEF ClientInv, CallerSound, OneCall, InCall, OnLine, Call

\* The daemon reads a request part by part.
LEMMA ReadStep ==
  ASSUME ClientInv, NEW c \in Conn, socket_thread_read(c)
  PROVE  ClientInv'
<1> USE DEF ClientInv
<1>1. /\ spc[c] \in {"read", "half"} /\ inbox[c] # <<>>
      /\ serving' = [serving EXCEPT ![c] = Head(inbox[c]).call]
      /\ inbox' = [inbox EXCEPT ![c] = Tail(@)]
      /\ spc' = [spc EXCEPT ![c] = IF spc[c] = "read" THEN "half" ELSE "exec"]
      /\ UNCHANGED <<log_analy, callers, nconn, outbox, alive, executed>>
  BY DEF socket_thread_read, ServerGo
<1>2. \A d \in Conn : d # c => /\ inbox'[d] = inbox[d] /\ outbox'[d] = outbox[d]
                                /\ spc'[d] = spc[d] /\ serving'[d] = serving[d]
  BY <1>1 DEF TypeOK
<1>3. PICK n \in Call :
        \/ spc[c] = "read" /\ inbox[c] \in {<<H(n)>>, <<H(n), B(n)>>}
        \/ spc[c] = "half" /\ inbox[c] = <<B(n)>> /\ serving[c] = n
  <2>1. CASE spc[c] = "read"
    BY <1>1, <2>1 DEF ConnSound
  <2>2. CASE spc[c] = "half"
    <3>1. inbox[c] = <<B(serving[c])>>
      BY <1>1, <2>2 DEF ConnSound
    <3>2. serving[c] \in Working(c)
      BY <2>2 DEF Working, Pre
    <3>3. serving[c] \in Call
      BY <3>2, Kinds DEF ConnSound, Call
    <3> QED
      BY <2>2, <3>1, <3>3
  <2> QED
    BY <1>1, <2>1, <2>2
<1>4. /\ Tail(<<H(n)>>) = <<>> /\ Tail(<<H(n), B(n)>>) = <<B(n)>> /\ Tail(<<B(n)>>) = <<>>
      /\ Head(<<H(n)>>) = H(n) /\ Head(<<H(n), B(n)>>) = H(n) /\ Head(<<B(n)>>) = B(n)
      /\ ToSet(<<H(n)>>) = {H(n)} /\ ToSet(<<H(n), B(n)>>) = {H(n), B(n)} /\ ToSet(<<B(n)>>) = {B(n)}
      /\ ToSet(<<>>) = {}
      /\ H(n).call = n /\ B(n).call = n
  BY Tuples DEF H, B, Part
<1>5. /\ serving'[c] = n
      /\ inbox'[c] = Tail(inbox[c])
      /\ spc'[c] = IF spc[c] = "read" THEN "half" ELSE "exec"
  <2>1. Head(inbox[c]).call = n
    BY <1>3, <1>4
  <2> QED
    BY <1>1, <2>1 DEF TypeOK
<1>6. \/ spc[c] = "read" /\ inbox[c] = <<H(n)>> /\ inbox'[c] = <<>> /\ spc'[c] = "half"
      \/ spc[c] = "read" /\ inbox[c] = <<H(n), B(n)>> /\ inbox'[c] = <<B(n)>> /\ spc'[c] = "half"
      \/ /\ spc[c] = "half" /\ inbox[c] = <<B(n)>> /\ serving[c] = n
         /\ inbox'[c] = <<>> /\ spc'[c] = "exec"
  BY <1>3, <1>4, <1>5
<1>7. Pre(c) = {n} /\ Working(c) = {n} /\ Pre(c)' = {n} /\ Working(c)' = {n}
  <2>1. {p.call : p \in ToSet(inbox[c])} = {n}
    BY <1>4, <1>6
  <2>2. {p.call : p \in ToSet(inbox'[c])} \in {{}, {n}}
    BY <1>4, <1>6
  <2>3. Pre(c) = {n} /\ Working(c) = {n}
    BY <1>3, <2>1 DEF Pre, Working
  <2>4. Pre(c)' = {n}
    BY <1>5, <1>6, <2>2 DEF Pre
  <2> QED
    BY <1>6, <2>3, <2>4 DEF Working
<1>8. TypeOK'
  <2>1. Tail(inbox[c]) \in Seq(Parts)
    BY <1>1, SeqTypes DEF TypeOK
  <2>2. inbox' \in [Conn -> Seq(Parts)]
    BY <1>1, <2>1 DEF TypeOK
  <2>3. serving' \in [Conn -> Call \cup {NULL}]
    <3>1. serving' = [serving EXCEPT ![c] = n]
      BY <1>1, <1>3, <1>4
    <3> QED
      BY <3>1 DEF TypeOK
  <2>4. spc' \in [Conn -> {"off", "read", "half", "exec", "head", "body", "ended"}]
    BY <1>1 DEF TypeOK
  <2> QED
    BY <1>1, <2>2, <2>3, <2>4 DEF TypeOK, log_analy, callers
<1>9. /\ OneCall' /\ Numbers' /\ Fresh' /\ LineSound'
      /\ \A d \in Conn : d # c => ConnSound(d)' /\ Pre(d)' = Pre(d)
      /\ \A t \in Caller : ~ (OnLine(t) /\ c = sock) => CallerSound(t)'
  <2>1. ~ Quiet(c) /\ spc[c] # "off" /\ {} \in SUBSET Pre(c)
    BY <1>1 DEF Quiet
  <2>2. ToSet(executed') = ToSet(executed) \cup {}
    BY <1>1
  <2>3. UNCHANGED <<log_analy, callers, nconn>>
    BY <1>1
  <2> QED
    BY <1>2, <2>1, <2>2, <2>3, ServerFrame
<1>10. ConnSound(c)'
  <2>1. spc'[c] = "half" => inbox'[c] \in {<<>>, <<B(serving'[c])>>}
    BY <1>5, <1>6
  <2>2. \A t \in Caller : OnLine(t)' = OnLine(t)
    BY <1>1 DEF OnLine, callers
  <2> QED
    BY <1>1, <1>6, <1>7, <2>1, <2>2 DEF ConnSound, log_analy, callers
<1>11. Distinct'
  BY <1>7, <1>9 DEF Distinct
<1>12. ASSUME NEW t \in Caller, OnLine(t), c = sock PROVE CallerSound(t)'
  <2>1. /\ Head(<<H(ncalls)>>).call = ncalls /\ Head(<<H(ncalls), B(ncalls)>>).call = ncalls
        /\ Head(<<B(ncalls)>>).call = ncalls
    BY Tuples DEF H, B, Part
  <2>2. Head(inbox[c]).call = n
    BY <1>3, <1>4
  <2>3. CallerSound(t) /\ t \in Caller /\ pc'[t] = pc[t] /\ OnLine(t)'
    BY <1>1, <1>12 DEF callers, OnLine
  <2>4. CASE pc[t] = "send_body"
    <3>1. HalfSent(c, ncalls)
      BY <1>12, <2>3, <2>4 DEF CallerSound
    <3>2. n = ncalls /\ inbox[c] = <<H(n)>> /\ spc[c] = "read"
      BY <1>1, <2>1, <2>2, <3>1 DEF HalfSent
    <3>3. HalfSent(c, ncalls)'
      BY <1>1, <1>4, <1>5, <3>1, <3>2 DEF HalfSent, callers
    <3> QED
      BY <1>1, <1>12, <2>3, <2>4, <3>3 DEF CallerSound, InCall, log_analy, callers
  <2>5. CASE pc[t] = "recv"
    <3>1. Sent(c, ncalls)
      BY <1>12, <2>3, <2>5 DEF CallerSound
    <3>2. /\ n = ncalls /\ outbox[c] = <<>>
          /\ \/ spc[c] = "read" /\ inbox[c] = <<H(n), B(n)>>
             \/ spc[c] = "half" /\ inbox[c] = <<B(n)>>
      BY <1>1, <2>1, <2>2, <3>1 DEF Sent
    <3>3. \/ spc'[c] = "half" /\ inbox'[c] = <<B(n)>>
          \/ spc'[c] = "exec"
      BY <1>4, <1>5, <3>2
    <3>4. Sent(c, ncalls)'
      BY <1>1, <1>5, <3>2, <3>3 DEF Sent, callers
    <3> QED
      BY <1>1, <1>12, <2>3, <2>5, <3>4 DEF CallerSound, InCall, log_analy, callers
  <2>6. CASE pc[t] = "body"
    <3>1. HalfRead(c, ncalls)
      BY <1>12, <2>3, <2>6 DEF CallerSound
    <3> QED
      BY <1>1, <3>1 DEF HalfRead
  <2> QED
    BY <1>12, <2>4, <2>5, <2>6 DEF OnLine
<1> QED
  BY <1>8, <1>9, <1>10, <1>11, <1>12

\* A thread ends only when its connection is not used any more.
LEMMA EndStep ==
  ASSUME ClientInv, NEW c \in Conn, socket_thread_end(c)
  PROVE  ClientInv'
<1> USE DEF ClientInv
<1>1. /\ spc[c] = "read" /\ inbox[c] = <<>> /\ c <= nconn /\ c # sock
      /\ spc' = [spc EXCEPT ![c] = "ended"]
      /\ UNCHANGED <<log_analy, callers, nconn, inbox, outbox, alive, serving, executed>>
  BY DEF socket_thread_end, Shut, ServerGo
<1>2. spc'[c] = "ended" /\ \A d \in Conn : d # c => spc'[d] = spc[d]
  BY <1>1 DEF TypeOK
<1>3. TypeOK'
  <2>1. spc' \in [Conn -> {"off", "read", "half", "exec", "head", "body", "ended"}]
    BY <1>1 DEF TypeOK
  <2> QED
    BY <1>1, <2>1 DEF TypeOK, log_analy, callers
<1>4. /\ OneCall' /\ Numbers' /\ Fresh' /\ LineSound'
      /\ \A d \in Conn : d # c => ConnSound(d)' /\ Pre(d)' = Pre(d)
      /\ \A t \in Caller : CallerSound(t)'
  <2>1. {} \in SUBSET Pre(c) /\ ToSet(executed') = ToSet(executed) \cup {}
    BY <1>1
  <2> QED
    BY <1>1, <1>2, <2>1, ServerFrame
<1>5. ToSet(inbox'[c]) = {}
  BY <1>1, Tuples
<1>6. Pre(c)' = {} /\ Working(c)' = {}
  BY <1>2, <1>5 DEF Pre, Working
<1>7. ConnSound(c)'
  BY <1>1, <1>2, <1>6 DEF ConnSound, log_analy
<1>8. Distinct'
  BY <1>4, <1>6 DEF Distinct
<1> QED
  BY <1>3, <1>4, <1>7, <1>8

\* When the daemon dies its ends of all connections are empty.
LEMMA DiesStep ==
  ASSUME ClientInv, DaemonDies
  PROVE  ClientInv'
<1> USE DEF ClientInv
<1>1. /\ alive' = FALSE /\ spc' = [d \in Conn |-> "off"] /\ inbox' = [d \in Conn |-> <<>>]
      /\ UNCHANGED <<log_analy, callers, nconn, outbox, serving, executed>>
  BY DEF DaemonDies
<1>2. \A d \in Conn : spc'[d] = "off" /\ inbox'[d] = <<>>
  BY <1>1
<1>3. TypeOK'
  <2>1. inbox' \in [Conn -> Seq(Parts)]
    BY <1>1
  <2>2. spc' \in [Conn -> {"off", "read", "half", "exec", "head", "body", "ended"}]
    BY <1>1
  <2> QED
    BY <1>1, <2>1, <2>2 DEF TypeOK, log_analy, callers
<1>4. ASSUME NEW d \in Conn PROVE Pre(d)' = {} /\ Working(d)' = {}
  <2>1. ToSet(inbox'[d]) = {}
    BY <1>2, Tuples
  <2> QED
    BY <1>2, <2>1 DEF Pre, Working
<1>5. \A d \in Conn : ConnSound(d)'
  BY <1>2, <1>4 DEF ConnSound
<1>6. Distinct'
  BY <1>4 DEF Distinct
<1>7. OneCall' /\ Numbers' /\ Fresh' /\ LineSound'
  <2>1. OneCall' /\ Numbers'
    BY <1>1 DEF OneCall, InCall, Numbers, log_analy, callers
  <2>2. Fresh'
    BY <1>1, <1>2 DEF Fresh
  <2>3. LineSound'
    BY <1>1, <1>2 DEF LineSound, Quiet, OnLine, log_analy, callers
  <2> QED
    BY <2>1, <2>2, <2>3
<1>8. ASSUME NEW t \in Caller PROVE CallerSound(t)'
  <2>1. CallerSound(t)
    OBVIOUS
  <2>2. sock' = sock /\ executed' = executed /\ outbox' = outbox /\ ncalls' = ncalls
    BY <1>1 DEF log_analy, callers
  <2>3. sock \in Conn =>
          /\ HalfSent(sock, ncalls) => HalfSent(sock, ncalls)'
          /\ Sent(sock, ncalls) => Sent(sock, ncalls)'
          /\ HalfRead(sock, ncalls) => HalfRead(sock, ncalls)'
    BY <1>2, <2>2 DEF HalfSent, Sent, HalfRead
  <2> QED
    BY <1>1, <2>1, <2>2, <2>3 DEF CallerSound, InCall, OnLine, log_analy, callers
<1> QED
  BY <1>3, <1>5, <1>6, <1>7, <1>8

\* The daemon executes a request that it did not execute before.
LEMMA ExecStep ==
  ASSUME ClientInv, NEW c \in Conn, socket_thread_exec(c)
  PROVE  /\ ClientInv' /\ executed' = Append(executed, serving[c])
         /\ serving[c] \in 1 .. ncalls /\ serving[c] \notin ToSet(executed)
         /\ serving[c] \in givenUp \/ (serving[c] = ncalls /\ \E t \in Caller : OnLine(t))
<1> USE DEF ClientInv
<1> DEFINE n == serving[c]
<1>1. /\ spc[c] = "exec" /\ executed' = Append(executed, n)
      /\ spc' = [spc EXCEPT ![c] = "head"]
      /\ UNCHANGED <<log_analy, callers, nconn, inbox, outbox, alive, serving>>
  BY DEF socket_thread_exec, ServerGo
<1>2. spc'[c] = "head" /\ \A d \in Conn : d # c => spc'[d] = spc[d]
  BY <1>1 DEF TypeOK
<1>3. inbox[c] = <<>> /\ ToSet(inbox[c]) = {}
  BY <1>1, Tuples DEF ConnSound
<1>4. Pre(c) = {n} /\ Working(c) = {n} /\ Pre(c)' = {} /\ Working(c)' = {n}
  BY <1>1, <1>2, <1>3 DEF Pre, Working
<1>5. /\ n \in 1 .. ncalls /\ n \notin ToSet(executed)
      /\ n \in givenUp \/ (c = sock /\ n = ncalls /\ \E t \in Caller : OnLine(t))
  BY <1>4 DEF ConnSound
<1>6. ToSet(executed') = ToSet(executed) \cup {n}
  BY <1>1, ToSetAppend DEF TypeOK
<1>7. TypeOK'
  <2>1. executed' \in Seq(Call)
    <3>1. n \in Call
      BY <1>5, Kinds DEF Call
    <3> QED
      BY <1>1, <3>1, SeqTypes DEF TypeOK
  <2>2. spc' \in [Conn -> {"off", "read", "half", "exec", "head", "body", "ended"}]
    BY <1>1 DEF TypeOK
  <2> QED
    BY <1>1, <2>1, <2>2 DEF TypeOK, log_analy, callers
<1>8. /\ OneCall' /\ Numbers' /\ Fresh' /\ LineSound'
      /\ \A d \in Conn : d # c => ConnSound(d)' /\ Pre(d)' = Pre(d)
      /\ \A t \in Caller : ~ (OnLine(t) /\ c = sock) => CallerSound(t)'
  <2>1. spc[c] # "off" /\ ~ Quiet(c) /\ {n} \in SUBSET Pre(c)
    BY <1>1, <1>4 DEF Quiet
  <2>2. UNCHANGED <<log_analy, callers, nconn>>
    BY <1>1
  <2>3. \A d \in Conn : d # c => /\ inbox'[d] = inbox[d] /\ outbox'[d] = outbox[d]
                                  /\ spc'[d] = spc[d] /\ serving'[d] = serving[d]
    BY <1>1, <1>2
  <2> HIDE DEF n
  <2> QED
    BY <1>6, <2>1, <2>2, <2>3, ServerFrame
<1>9. ConnSound(c)'
  BY <1>1, <1>2, <1>3, <1>4, <1>5 DEF ConnSound, log_analy, callers, OnLine
<1>10. Distinct'
  BY <1>4, <1>8 DEF Distinct
<1>11. ASSUME NEW t \in Caller, OnLine(t), c = sock PROVE CallerSound(t)'
  <2>1. CallerSound(t) /\ ncalls \notin givenUp
    BY <1>11, OnTheLine
  <2>2. n = ncalls
    BY <1>1, <1>11, <2>1 DEF CallerSound, HalfSent, Sent, HalfRead, OnLine
  <2>3. pc[t] = "recv" /\ outbox[c] = <<>>
    BY <1>1, <1>11, <2>1 DEF CallerSound, HalfSent, Sent, HalfRead, OnLine
  <2>4. Sent(c, ncalls)'
    BY <1>1, <1>2, <1>6, <2>2, <2>3 DEF Sent, callers
  <2> QED
    BY <1>1, <1>11, <2>1, <2>3, <2>4 DEF CallerSound, InCall, OnLine, log_analy, callers
<1> QED
  BY <1>1, <1>5, <1>7, <1>8, <1>9, <1>10, <1>11

\* The reply is that to the request the caller waits for.
LEMMA WriteStep ==
  ASSUME ClientInv, NEW c \in Conn, socket_thread_write(c)
  PROVE  ClientInv'
<1> USE DEF ClientInv
<1> DEFINE n == serving[c]
           part == Part(spc[c], n)
<1>1. /\ spc[c] \in {"head", "body"}
      /\ outbox' = IF Shut(c) THEN outbox ELSE [outbox EXCEPT ![c] = Append(@, part)]
      /\ spc' = [spc EXCEPT ![c] = IF spc[c] = "head" THEN "body" ELSE "read"]
      /\ UNCHANGED <<log_analy, callers, nconn, inbox, alive, serving, executed>>
  BY DEF socket_thread_write, ServerGo, AfterWrite
<1>2. /\ spc'[c] = (IF spc[c] = "head" THEN "body" ELSE "read")
      /\ \A d \in Conn : d # c => spc'[d] = spc[d] /\ outbox'[d] = outbox[d]
  BY <1>1 DEF TypeOK
<1>3. inbox[c] = <<>> /\ ToSet(inbox[c]) = {}
  BY <1>1, Tuples DEF ConnSound
<1>4. Pre(c) = {} /\ Working(c) = {n} /\ Pre(c)' = {} /\ Working(c)' \subseteq {n}
  BY <1>1, <1>2, <1>3 DEF Pre, Working
<1>5. n \in 1 .. ncalls /\ n \in Call
  <2>1. n \in Working(c) /\ ConnSound(c)
    BY <1>4
  <2>2. n \in 1 .. ncalls
    BY <2>1 DEF ConnSound
  <2> QED
    BY <2>2, Kinds DEF Call
<1>6. TypeOK'
  <2>1. part \in Parts /\ outbox[c] \in Seq(Parts)
    BY <1>1, <1>5 DEF Part, Parts, TypeOK
  <2> HIDE DEF part
  <2>2. Append(outbox[c], part) \in Seq(Parts)
    BY <2>1, SeqTypes
  <2>3. outbox' \in [Conn -> Seq(Parts)]
    BY <1>1, <2>2 DEF TypeOK
  <2>4. spc' \in [Conn -> {"off", "read", "half", "exec", "head", "body", "ended"}]
    BY <1>1 DEF TypeOK
  <2> QED
    BY <1>1, <2>3, <2>4 DEF TypeOK, log_analy, callers
<1>7. /\ OneCall' /\ Numbers' /\ Fresh' /\ LineSound'
      /\ \A d \in Conn : d # c => ConnSound(d)' /\ Pre(d)' = Pre(d)
      /\ \A t \in Caller : ~ (OnLine(t) /\ c = sock) => CallerSound(t)'
  <2>1. spc[c] # "off" /\ ~ Quiet(c) /\ {} \in SUBSET Pre(c)
    BY <1>1 DEF Quiet
  <2>2. ToSet(executed') = ToSet(executed) \cup {}
    BY <1>1
  <2>3. UNCHANGED <<log_analy, callers, nconn>>
    BY <1>1
  <2>4. \A d \in Conn : d # c => /\ inbox'[d] = inbox[d] /\ outbox'[d] = outbox[d]
                                  /\ spc'[d] = spc[d] /\ serving'[d] = serving[d]
    BY <1>1, <1>2
  <2> QED
    BY <2>1, <2>2, <2>3, <2>4, ServerFrame
<1>8. ConnSound(c)'
  BY <1>1, <1>2, <1>3, <1>4, <1>5 DEF ConnSound, log_analy, callers, OnLine
<1>9. Distinct'
  BY <1>4, <1>7 DEF Distinct
<1>10. ASSUME NEW t \in Caller, OnLine(t), c = sock PROVE CallerSound(t)'
  <2>1. CallerSound(t) /\ ncalls \notin givenUp
    BY <1>10, OnTheLine
  <2>2. n = ncalls
    BY <1>1, <1>10, <2>1 DEF CallerSound, HalfSent, Sent, HalfRead, OnLine
  <2>3. outbox'[c] = Append(outbox[c], part)
    BY <1>1, <1>10 DEF Shut, TypeOK
  <2>4. CASE spc[c] = "head"
    <3>1. pc[t] = "recv" /\ outbox[c] = <<>> /\ n \in ToSet(executed)
      BY <1>10, <2>1, <2>2, <2>4 DEF CallerSound, HalfSent, Sent, HalfRead, OnLine
    <3>2. part = H(n)
      BY <2>4 DEF H
    <3> HIDE DEF part
    <3>3. outbox'[c] = <<H(n)>>
      BY <2>3, <3>1, <3>2, Tuples
    <3>4. Sent(c, ncalls)'
      BY <1>1, <1>2, <2>2, <2>4, <3>1, <3>3 DEF Sent, callers
    <3> QED
      BY <1>1, <1>10, <2>1, <3>1, <3>4 DEF CallerSound, InCall, OnLine, log_analy, callers
  <2>5. CASE spc[c] = "body"
    <3>1. part = B(n) /\ n \in ToSet(executed)
      BY <1>10, <2>1, <2>2, <2>5 DEF B, CallerSound, HalfSent, Sent, HalfRead, OnLine
    <3> HIDE DEF part
    <3>2. Append(<<>>, part) = <<part>> /\ Append(<<H(n)>>, part) = <<H(n), part>>
      BY Tuples
    <3>3. CASE pc[t] = "recv"
      <4>1. outbox[c] = <<H(n)>>
        BY <1>10, <2>1, <2>2, <2>5, <3>3 DEF CallerSound, Sent
      <4>2. Sent(c, ncalls)'
        BY <1>1, <1>2, <1>3, <2>2, <2>3, <2>5, <3>1, <3>2, <4>1 DEF Sent, callers
      <4> QED
        BY <1>1, <1>10, <2>1, <3>3, <4>2 DEF CallerSound, InCall, OnLine, log_analy, callers
    <3>4. CASE pc[t] = "body"
      <4>1. outbox[c] = <<>>
        BY <1>10, <2>1, <2>2, <2>5, <3>4 DEF CallerSound, HalfRead
      <4>2. HalfRead(c, ncalls)'
        BY <1>1, <1>2, <1>3, <2>2, <2>3, <2>5, <3>1, <3>2, <4>1 DEF HalfRead, callers
      <4> QED
        BY <1>1, <1>10, <2>1, <3>4, <4>2 DEF CallerSound, InCall, OnLine, log_analy, callers
    <3>5. pc[t] # "send_body"
      BY <1>10, <2>1, <2>5 DEF CallerSound, HalfSent
    <3> QED
      BY <1>10, <3>3, <3>4, <3>5 DEF OnLine
  <2> QED
    BY <1>1, <2>4, <2>5
<1> QED
  BY <1>6, <1>7, <1>8, <1>9, <1>10

-----------------------------------------------------------------------------
(* The two programs started again.                                         *)

\* A daemon that is started again knows of no connection.
LEMMA RestartStep ==
  ASSUME ClientInv, restart
  PROVE  ClientInv'
<1> USE DEF ClientInv
<1>1. alive' = TRUE /\ UNCHANGED <<log_analy, callers, nconn, inbox, outbox, spc, serving, executed>>
  BY DEF restart
<1>2. TypeOK'
  BY <1>1 DEF TypeOK, log_analy, callers
<1>3. \A c \in Conn : Pre(c)' = Pre(c) /\ Working(c)' = Working(c)
  BY <1>1 DEF Pre, Working
<1>4. (\A c \in Conn : ConnSound(c)') /\ Distinct'
  BY <1>1, <1>3 DEF ConnSound, OnLine, log_analy, callers, Distinct
<1>5. \A t \in Caller : CallerSound(t)'
  BY <1>1 DEF CallerSound, InCall, OnLine, HalfSent, Sent, HalfRead, log_analy, callers
<1>6. OneCall' /\ Numbers' /\ Fresh' /\ LineSound'
  BY <1>1 DEF OneCall, InCall, Numbers, Fresh, LineSound, OnLine, Quiet, log_analy, callers
<1> QED
  BY <1>2, <1>4, <1>5, <1>6

\* A web server that dies gives up its request.
LEMMA CrashStep ==
  ASSUME ClientInv, crash
  PROVE  ClientInv'
<1> USE DEF ClientInv
<1>1. /\ up' = FALSE /\ ncrash < MaxCrash /\ ncrash' = ncrash + 1
      /\ givenUp' = givenUp \cup {req[t] : t \in Waiting}
      /\ pc' = [t \in Caller |-> "idle"] /\ mutex' = FALSE /\ sock' = NULL
      /\ UNCHANGED <<connecting, retry, req, reply, ncalls, nconn, inbox, outbox, daemon>>
  BY DEF crash
<1>2. \A t \in Caller : pc'[t] = "idle"
  BY <1>1
<1>3. \A t \in Waiting : InCall(t) /\ req[t] = ncalls /\ ncalls \in 1 .. ncalls /\ ncalls \in Call
  BY Kinds DEF Waiting, InCall, OneCall, Call
<1>4. \A n \in givenUp' : n \in givenUp \/ (n = ncalls /\ ncalls \in 1 .. ncalls /\ ncalls \in Call)
  BY <1>1, <1>3
<1>5. TypeOK'
  <2>1. ncrash' \in 0 .. MaxCrash
    BY <1>1, BoundAssumption DEF TypeOK
  <2>2. givenUp' \in SUBSET Call
    BY <1>4 DEF TypeOK
  <2>3. pc' \in [Caller -> {"idle", "acquire", "reconnect", "send", "send_body", "recv",
                           "body", "release"}]
    BY <1>1
  <2> QED
    BY <1>1, <2>1, <2>2, <2>3 DEF TypeOK, daemon
<1>6. givenUp \subseteq givenUp'
  BY <1>1
<1>7. (\E t \in Caller : OnLine(t)) => ncalls \in givenUp'
  <2> SUFFICES ASSUME NEW t \in Caller, OnLine(t) PROVE ncalls \in givenUp'
    OBVIOUS
  <2>1. t \in Waiting
    BY DEF OnLine, Waiting
  <2> QED
    BY <1>1, <1>3, <2>1
<1>8. (\A c \in Conn : ConnSound(c)') /\ Distinct'
  BY <1>1, <1>6, <1>7, ConnFrame DEF daemon
<1>9. OneCall' /\ Numbers' /\ Fresh' /\ LineSound'
  <2>1. OneCall'
    BY <1>1, <1>2 DEF OneCall, InCall
  <2>2. Numbers'
    BY <1>1, <1>4 DEF Numbers, daemon
  <2>3. Fresh' /\ LineSound'
    BY <1>1 DEF Fresh, LineSound, daemon
  <2> QED
    BY <2>1, <2>2, <2>3
<1>10. \A t \in Caller : CallerSound(t)'
  BY <1>2 DEF CallerSound, InCall, OnLine
<1> QED
  BY <1>5, <1>8, <1>9, <1>10

\* A web server that is started again has a connection of its own.
LEMMA StartStep ==
  ASSUME ClientInv, __init__
  PROVE  ClientInv'
<1> USE DEF ClientInv
<1> DEFINE c == nconn + 1
<1>1. /\ ~ up /\ up' = TRUE /\ connecting' = TRUE /\ retry' = 0 /\ nconn' = c /\ sock' = c
      /\ spc' = [spc EXCEPT ![c] = "read"]
      /\ UNCHANGED <<mutex, ncrash, callers, inbox, outbox, alive, serving, executed>>
  BY DEF __init__, ServerGo
<1>2. /\ c \in Conn /\ c > nconn /\ nconn \in Nat /\ ncalls \in Nat
      /\ \A d \in Conn : d \in Nat /\ d # NULL
  BY Kinds DEF __init__, Conn
<1>3. \A t \in Caller : pc[t] = "idle" /\ pc'[t] = "idle"
  BY <1>1 DEF OneCall, callers
<1>4. inbox[c] = <<>> /\ outbox[c] = <<>> /\ spc[c] = "off"
  BY <1>2 DEF Fresh
<1>5. spc'[c] = "read" /\ \A d \in Conn : d # c => spc'[d] = spc[d]
  BY <1>1, <1>2 DEF TypeOK
<1>6. TypeOK'
  <2>1. spc' \in [Conn -> {"off", "read", "half", "exec", "head", "body", "ended"}]
    BY <1>1 DEF TypeOK
  <2>2. retry' \in 0 .. Retries
    BY <1>1, BoundAssumption
  <2> QED
    BY <1>1, <1>2, <2>1, <2>2 DEF TypeOK, callers
<1>7. \A d \in Conn : Pre(d)' = Pre(d) /\ Working(d)' = Working(d)
  BY <1>1, <1>4, <1>5 DEF Pre, Working
<1>8. ASSUME NEW d \in Conn PROVE ConnSound(d)'
  <2>1. ConnSound(d)
    OBVIOUS
  <2>2. spc'[d] = "ended" => d # sock' /\ d <= nconn'
    BY <1>1, <1>2, <1>5, <2>1 DEF ConnSound
  <2>3. \A n \in Working(d) : n \in 1 .. ncalls /\ n \in givenUp
    BY <1>3, <2>1 DEF ConnSound, OnLine
  <2>4. CASE d = c
    BY <1>1, <1>4, <1>5, <1>7, <2>1, <2>2, <2>3, <2>4 DEF ConnSound, callers
  <2>5. CASE d # c
    BY <1>1, <1>5, <1>7, <2>1, <2>2, <2>3, <2>5 DEF ConnSound, callers
  <2> QED
    BY <2>4, <2>5
<1>9. OneCall' /\ Numbers' /\ Fresh' /\ LineSound' /\ Distinct'
  <2>1. OneCall'
    BY <1>3 DEF OneCall, InCall
  <2>2. Numbers'
    BY <1>1, <1>2 DEF Numbers, callers
  <2>3. Fresh'
    BY <1>1, <1>2, <1>5 DEF Fresh
  <2>4. LineSound'
    BY <1>1, <1>2, <1>4, <1>5 DEF LineSound, Quiet
  <2>5. Distinct'
    BY <1>7 DEF Distinct
  <2> QED
    BY <2>1, <2>2, <2>3, <2>4, <2>5
<1>10. \A t \in Caller : CallerSound(t)'
  BY <1>3 DEF CallerSound, InCall, OnLine
<1> QED
  BY <1>6, <1>8, <1>9, <1>10

\* A step that changes nothing.
LEMMA StutterStep ==
  ASSUME ClientInv, UNCHANGED vars
  PROVE  ClientInv'
<1> USE DEF ClientInv, vars, log_analy, callers, daemon
<1>1. TypeOK'
  BY DEF TypeOK
<1>2. \A c \in Conn : Pre(c)' = Pre(c) /\ Working(c)' = Working(c)
  BY DEF Pre, Working
<1>3. (\A c \in Conn : ConnSound(c)') /\ Distinct'
  BY <1>2 DEF ConnSound, OnLine, Distinct
<1>4. \A t \in Caller : CallerSound(t)'
  BY DEF CallerSound, InCall, OnLine, HalfSent, Sent, HalfRead
<1>5. OneCall' /\ Numbers' /\ Fresh' /\ LineSound'
  BY DEF OneCall, InCall, Numbers, Fresh, LineSound, OnLine, Quiet
<1> QED
  BY <1>1, <1>3, <1>4, <1>5

\* Every step of either program keeps the invariant.
LEMMA ClientInvStep == ClientInv /\ [Next]_vars => ClientInv'
<1> SUFFICES ASSUME ClientInv, [Next]_vars PROVE ClientInv'
  OBVIOUS
<1>1. ASSUME NEW t \in Caller, _send_request(t) \/ _send_request_acquire(t) \/ client(t)
      PROVE  ClientInv'
  BY <1>1, CallStep, AcquireStep, ReconnectStep, ReconnectFailsStep, SendStep, RecvStep, ExceptStep,
     ReleaseStep DEF client
<1>2. ASSUME NEW c \in Conn, socket_thread(c) PROVE ClientInv'
  BY <1>2, ReadStep, EndStep, DiesStep, ExecStep, WriteStep
     DEF socket_thread, socket_thread_unpack, socket_thread_sigpipe
<1> QED
  BY <1>1, <1>2, RestartStep, CrashStep, StartStep, StutterStep DEF Next

\* The invariant of both programs.
LEMMA ClientInvariant == Spec => []ClientInv
  BY InitClient, ClientInvStep, PTL DEF Spec

-----------------------------------------------------------------------------
(* The theorems.                                                           *)

\* A caller of _send_request gets the reply to its own request or an empty
\* one, although replies come late and either program may die: the mutex and
\* the connection that is given up of logser_client.py.
THEOREM OwnReplyTheorem == Spec => []OwnReply
<1>1. ClientInv => OwnReply
  BY DEF ClientInv, OwnReply, CallerSound, OneCall, InCall
<1> QED
  BY <1>1, ClientInvariant, PTL

\* Clients kill the daemon only over a request that was given up: the reads and
\* writes of socket_thread in log_topn.c.
THEOREM KilledTheorem == Spec => KilledByGivenUp
<1> DEFINE A == alive /\ ~ alive' =>
                  \E c \in Conn : spc[c] \in {"half", "head", "body"} /\ serving[c] \in givenUp
<1>1. ClientInv /\ [Next]_vars => [A]_vars
  <2> SUFFICES ASSUME ClientInv, Next, alive, ~ alive'
               PROVE  \E c \in Conn : spc[c] \in {"half", "head", "body"} /\ serving[c] \in givenUp
    OBVIOUS
  <2>1. PICK c \in Conn : socket_thread_unpack(c) \/ socket_thread_sigpipe(c)
    BY DEF Next, client, socket_thread, _send_request, _send_request_acquire, _reconncet,
       _reconncet_fails, _send_request_send, _send_request_recv, _send_request_except,
       _send_request_release, socket_thread_read, socket_thread_end, socket_thread_exec,
       socket_thread_write, restart, crash, __init__, daemon
  <2>2. spc[c] \in {"half", "head", "body"} /\ c # sock
    BY <2>1 DEF socket_thread_unpack, socket_thread_sigpipe, Shut
  <2>3. serving[c] \in Working(c)
    BY <2>2 DEF Working, Pre
  <2>4. serving[c] \in givenUp
    BY <2>2, <2>3 DEF ClientInv, ConnSound
  <2> QED
    BY <2>2, <2>4
<1> QED
  BY <1>1, ClientInvariant, PTL DEF Spec, KilledByGivenUp

-----------------------------------------------------------------------------
(* StatsClient implements CallSpec.                                        *)

\* The request under way and its answer, as Calls maps them.
Open == IF Holder = {} THEN 0 ELSE req[Holding]
Answered == IF Holder = Waiting THEN <<>>
            ELSE <<IF reply[Holding] = NULL THEN 0 ELSE reply[Holding]>>

\* What the mapping is while one caller at most is in its call.
Mapped ==
  /\ (\A t \in Caller : ~ InCall(t)) => Open = 0 /\ Answered = <<>>
  /\ \A t \in Caller : InCall(t) =>
       /\ Open = ncalls
       /\ pc[t] # "release" => Answered = <<>>
       /\ pc[t] = "release" => Answered = <<IF reply[t] = NULL THEN 0 ELSE reply[t]>>

\* The invariant makes the mapping what it should be.
LEMMA Mapping == ClientInv => Mapped
<1> SUFFICES ASSUME ClientInv PROVE Mapped
  OBVIOUS
<1>1. Holder = {t \in Caller : InCall(t)} /\ Waiting = {t \in Caller : InCall(t) /\ pc[t] # "release"}
  BY DEF Holder, Waiting, InCall
<1>2. ASSUME \A t \in Caller : ~ InCall(t) PROVE Open = 0 /\ Answered = <<>>
  BY <1>1, <1>2 DEF Open, Answered
<1>3. ASSUME NEW t \in Caller, InCall(t)
      PROVE  /\ Open = ncalls
             /\ pc[t] # "release" => Answered = <<>>
             /\ pc[t] = "release" => Answered = <<IF reply[t] = NULL THEN 0 ELSE reply[t]>>
  <2>1. Holder = {t} /\ Holding = t /\ req[t] = ncalls
    BY <1>1, <1>3 DEF ClientInv, OneCall, Holding
  <2>2. Holder = Waiting <=> pc[t] # "release"
    BY <1>1, <1>3, <2>1
  <2> QED
    BY <2>1, <2>2 DEF Open, Answered
<1> QED
  BY <1>2, <1>3 DEF Mapped

\* Steps in the middle of a call do not show.
LEMMA SameMap ==
  ASSUME Mapped, Mapped', ncalls' = ncalls,
         \A t \in Caller : /\ InCall(t)' <=> InCall(t)
                           /\ pc'[t] = "release" <=> pc[t] = "release"
                           /\ pc[t] = "release" => reply'[t] = reply[t]
  PROVE  Open' = Open /\ Answered' = Answered
<1>1. CASE \A t \in Caller : ~ InCall(t)
  BY <1>1 DEF Mapped
<1>2. ASSUME NEW t \in Caller, InCall(t) PROVE Open' = Open /\ Answered' = Answered
  BY <1>2 DEF Mapped
<1> QED
  BY <1>1, <1>2

\* The initial state is one of CallSpec.
LEMMA InitMaps == Init => Calls!Init
<1> SUFFICES ASSUME Init PROVE Calls!Init
  OBVIOUS
<1>1. Open = 0 /\ Answered = <<>>
  BY InitClient, Mapping DEF Mapped, InCall, Init
<1> QED
  BY <1>1 DEF Calls!Init, Open, Answered, Init

\* Every step is one of CallSpec, or changes nothing that it knows of.
LEMMA StepMaps ==
  ASSUME ClientInv, ClientInv', Mapped, Mapped', [Next]_vars
  PROVE  Calls!Next \/ UNCHANGED Calls!callVars
<1>1. ASSUME Open' = Open, Answered' = Answered, UNCHANGED <<ncalls, executed, givenUp>>
      PROVE  UNCHANGED Calls!callVars
  BY <1>1 DEF Calls!callVars, Open, Answered
<1>2. ASSUME NEW t \in Caller, _send_request_acquire(t), pc'[t] # "idle" PROVE Calls!Issue
  <2>1. /\ ncalls' = ncalls + 1 /\ UNCHANGED <<executed, givenUp>>
        /\ \A u \in Caller : ~ InCall(u)
        /\ InCall(t)' /\ pc'[t] # "release"
    BY <1>2 DEF _send_request_acquire, Free, ClientInv, OneCall, InCall, TypeOK, Go, daemon
  <2>2. Open = 0 /\ Answered = <<>> /\ Open' = ncalls + 1 /\ Answered' = <<>>
    BY <2>1 DEF Mapped
  <2> QED
    BY <2>1, <2>2 DEF Calls!Issue, Open, Answered
<1>3. ASSUME NEW t \in Caller, _send_request_acquire(t), pc'[t] = "idle"
      PROVE  UNCHANGED Calls!callVars
  <2>1. /\ UNCHANGED <<ncalls, executed, givenUp>>
        /\ \A u \in Caller : ~ InCall(u) /\ ~ InCall(u)'
    BY <1>3 DEF _send_request_acquire, Free, ClientInv, OneCall, InCall, TypeOK, Go, daemon
  <2> QED
    BY <1>1, <2>1 DEF Mapped
<1>4. ASSUME NEW t \in Caller, _send_request_recv(t), pc[t] = "body" PROVE Calls!Answer
  <2>1. /\ UNCHANGED <<ncalls, executed, givenUp>> /\ pc'[t] = "release"
        /\ InCall(t) /\ pc[t] # "release" /\ InCall(t)'
    BY <1>4 DEF _send_request_recv, ClientInv, TypeOK, Go, InCall, daemon
  <2>2. ncalls # 0 /\ ncalls \in Nat /\ ncalls # NULL /\ req[t] = ncalls /\ 0 # NULL
    BY <2>1, Kinds, BoundAssumption DEF ClientInv, OneCall
  <2>3. reply'[t] = ncalls /\ ncalls \in ToSet(executed)
    <3>1. HalfRead(sock, ncalls) /\ sock \in Conn
      BY <1>4 DEF ClientInv, CallerSound, OnLine
    <3>2. outbox[sock] = <<B(ncalls)>>
      BY <1>4, <3>1 DEF HalfRead, _send_request_recv, ClientInv, TypeOK
    <3>3. Head(outbox[sock]).call = ncalls
      BY <3>2, Tuples DEF B, Part
    <3> QED
      BY <1>4, <3>1, <3>3 DEF _send_request_recv, ClientInv, TypeOK, HalfRead
  <2>4. Open = ncalls /\ Open' = ncalls /\ Answered = <<>> /\ Answered' = <<ncalls>>
    BY <2>1, <2>2, <2>3 DEF Mapped
  <2> QED
    BY <2>1, <2>2, <2>3, <2>4 DEF Calls!Answer, Calls!ToSet, ToSet, Open, Answered
<1>5. ASSUME NEW t \in Caller, _send_request_except(t) PROVE Calls!GiveUp
  <2>1. /\ UNCHANGED <<ncalls, executed, reply>> /\ pc'[t] = "release" /\ givenUp' = givenUp \cup {req[t]}
        /\ InCall(t) /\ pc[t] # "release" /\ InCall(t)'
    BY <1>5 DEF _send_request_except, Fails, ClientInv, TypeOK, Go, InCall, daemon
  <2>2. ncalls # 0 /\ req[t] = ncalls /\ reply[t] = NULL
    BY <2>1 DEF ClientInv, OneCall, CallerSound
  <2>3. Open = ncalls /\ Open' = ncalls /\ Answered = <<>> /\ Answered' = <<0>>
    BY <2>1, <2>2 DEF Mapped
  <2> QED
    BY <2>1, <2>2, <2>3 DEF Calls!GiveUp, Open, Answered
<1>6. ASSUME NEW t \in Caller, _send_request_release(t) PROVE Calls!Return
  <2>1. /\ UNCHANGED <<ncalls, executed, givenUp>> /\ pc[t] = "release"
        /\ InCall(t) /\ \A u \in Caller : ~ InCall(u)'
    <3>1. pc[t] = "release" /\ pc'[t] = "idle" /\ \A u \in Caller : u # t => pc'[u] = pc[u]
      BY <1>6, Going DEF _send_request_release, ClientInv
    <3> QED
      BY <1>6, <3>1 DEF _send_request_release, ClientInv, OneCall, InCall, daemon
  <2>2. Answered # <<>> /\ Open' = 0 /\ Answered' = <<>>
    BY <2>1 DEF Mapped
  <2> QED
    BY <2>1, <2>2 DEF Calls!Return, Open, Answered
<1>7. ASSUME NEW c \in Conn, socket_thread_exec(c) PROVE Calls!Next
  <2> DEFINE n == serving[c]
  <2>1. /\ executed' = Append(executed, n) /\ n \in 1 .. ncalls /\ n \notin ToSet(executed)
        /\ n \in givenUp \/ (n = ncalls /\ \E t \in Caller : OnLine(t))
    BY <1>7, ExecStep
  <2>2. UNCHANGED <<ncalls, givenUp, pc, req, reply>>
    BY <1>7 DEF socket_thread_exec, callers
  <2>3. Open' = Open /\ Answered' = Answered
    BY <2>2, SameMap DEF InCall
  <2>4. (\E t \in Caller : OnLine(t)) => Open = ncalls /\ Answered = <<>>
    BY DEF OnLine, InCall, Mapped
  <2> HIDE DEF n
  <2>5. Calls!Execute(n)
    BY <2>1, <2>2, <2>3, <2>4 DEF Calls!Execute, Calls!ToSet, ToSet, Open, Answered
  <2> QED
    BY <2>1, <2>5 DEF Calls!Next
<1>8. CASE crash
  <2>1. /\ UNCHANGED <<ncalls, executed>> /\ \A u \in Caller : ~ InCall(u)'
        /\ givenUp' = givenUp \cup {req[t] : t \in Waiting}
    BY <1>8 DEF crash, InCall, daemon
  <2>2. Open' = 0 /\ Answered' = <<>>
    BY <2>1 DEF Mapped
  <2>3. CASE \A t \in Caller : ~ InCall(t)
    <3>1. Waiting = {}
      BY <2>3 DEF Waiting, InCall
    <3>2. Open = 0 /\ Answered = <<>> /\ givenUp' = givenUp
      BY <2>1, <2>3, <3>1 DEF Mapped
    <3> QED
      BY <1>1, <2>1, <2>2, <3>2
  <2>4. ASSUME NEW t \in Caller, InCall(t) PROVE Calls!Die
    <3>1. req[t] = ncalls /\ ncalls # 0 /\ Open = ncalls /\ \A u \in Caller : InCall(u) => u = t
      BY <2>4 DEF ClientInv, OneCall, Mapped
    <3>2. CASE pc[t] = "release"
      <4>1. Waiting = {}
        BY <3>1, <3>2 DEF Waiting, InCall
      <4>2. Answered # <<>> /\ givenUp' = givenUp
        BY <2>1, <2>4, <3>2, <4>1 DEF Mapped
      <4> QED
        BY <2>1, <2>2, <3>1, <4>2 DEF Calls!Die, Open, Answered
    <3>3. CASE pc[t] # "release"
      <4>1. Waiting = {t}
        BY <2>4, <3>1, <3>3 DEF Waiting, InCall
      <4>2. Answered = <<>> /\ givenUp' = givenUp \cup {ncalls}
        BY <2>1, <2>4, <3>1, <3>3, <4>1 DEF Mapped
      <4> QED
        BY <2>1, <2>2, <3>1, <4>2 DEF Calls!Die, Open, Answered
    <3> QED
      BY <3>2, <3>3
  <2> QED
    BY <2>3, <2>4 DEF Calls!Next
<1>9. ASSUME NEW t \in Caller,
             \/ _send_request(t) \/ _reconncet(t) \/ _reconncet_fails(t) \/ _send_request_send(t)
             \/ _send_request_recv(t) /\ pc[t] # "body"
      PROVE  UNCHANGED Calls!callVars
  <2>1. UNCHANGED <<ncalls, executed, givenUp>>
    BY <1>9 DEF _send_request, _reconncet, _reconncet_fails, _send_request_send, _send_request_recv, daemon
  <2>2. \A u \in Caller : u # t => pc'[u] = pc[u] /\ reply'[u] = reply[u]
    BY <1>9 DEF _send_request, _reconncet, _reconncet_fails, _send_request_send, _send_request_recv,
       Go, ClientInv, TypeOK
  <2>3. (InCall(t)' <=> InCall(t)) /\ pc[t] # "release" /\ pc'[t] # "release"
    BY <1>9 DEF _send_request, _reconncet, _reconncet_fails, _send_request_send, _send_request_recv,
       Go, ClientInv, TypeOK, InCall
  <2>4. ASSUME NEW u \in Caller
        PROVE  /\ InCall(u)' <=> InCall(u)
               /\ pc'[u] = "release" <=> pc[u] = "release"
               /\ pc[u] = "release" => reply'[u] = reply[u]
    <3>1. CASE u = t
      BY <2>3, <3>1
    <3>2. CASE u # t
      BY <2>2, <3>2 DEF InCall
    <3> QED
      BY <3>1, <3>2
  <2>5. Open' = Open /\ Answered' = Answered
    BY <2>1, <2>4, SameMap
  <2> QED
    BY <1>1, <2>1, <2>5
<1>10. ASSUME \/ \E c \in Conn : socket_thread(c) /\ ~ socket_thread_exec(c)
              \/ restart \/ __init__ \/ UNCHANGED vars
       PROVE  UNCHANGED Calls!callVars
  <2>1. UNCHANGED <<ncalls, executed, givenUp, pc, reply>>
    BY <1>10 DEF socket_thread, socket_thread_read, socket_thread_end, socket_thread_unpack, DaemonDies,
       socket_thread_write, socket_thread_sigpipe, restart, __init__, vars, callers, daemon
  <2>2. Open' = Open /\ Answered' = Answered
    BY <2>1, SameMap DEF InCall
  <2> QED
    BY <1>1, <2>1, <2>2
<1>11. ASSUME NEW t \in Caller, _send_request(t) \/ _send_request_acquire(t) \/ client(t)
       PROVE  Calls!Next \/ UNCHANGED Calls!callVars
  BY <1>2, <1>3, <1>4, <1>5, <1>6, <1>9, <1>11 DEF client, Calls!Next
<1> QED
  BY <1>7, <1>8, <1>10, <1>11 DEF Next

\* The connection keeps the promise of CallSpec: one request at a time, each
\* executed once at most, and answered by its own reply or given up.
THEOREM CallTheorem == Spec => ImplementsCallSpec
<1>1. ClientInv /\ ClientInv' /\ Mapped /\ Mapped' /\ [Next]_vars => [Calls!Next]_Calls!callVars
  BY StepMaps
<1> QED
  BY InitMaps, <1>1, Mapping, ClientInvariant, PTL DEF Spec, ImplementsCallSpec, Calls!CSpec
=============================================================================
