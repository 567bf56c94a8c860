-------------------------- MODULE ConnectionProofs --------------------------
(***************************************************************************)
(* Proofs about one connection of the server, at its two levels: the sending  *)
(* side of a TcpConnection, for any number of responses, any lengths of       *)
(* headers and files and whatever the kernel takes; and HTTP above it, for     *)
(* any number of requests of any kinds, cut and interleaved in any way, their   *)
(* paths any sequences of segments, whichever services the server has.          *)
(***************************************************************************)
EXTENDS TcpConnection, HttpConnection, SequenceTheorems, TLAPS

\* EPOLLOUT switched to b.
Switch(c, b) == [c EXCEPT !.writing = b]

\* What the member functions keep.
Good(c, hand) == c \in ConnType /\ Writes(c) /\ Quiet(c) /\ Owned(c, hand)

-----------------------------------------------------------------------------
(* Data.                                                                     *)

\* Taking k units from the front of a sequence leaves one that is empty exactly if
\* all were taken.
LEMMA Rest ==
  ASSUME NEW s \in Seq(Units), NEW k \in 0..Len(s)
  PROVE  /\ SubSeq(s, 1, k) \in Seq(Units)
         /\ SubSeq(s, k + 1, Len(s)) \in Seq(Units)
         /\ SubSeq(s, k + 1, Len(s)) # <<>> <=> k < Len(s)
<1>1. Len(s) \in Nat /\ \A i \in 1..Len(s) : s[i] \in Units
  OBVIOUS
<1>2. SubSeq(s, 1, k) \in Seq(Units)
  BY <1>1
<1>3. SubSeq(s, k + 1, Len(s)) \in Seq(Units) /\ Len(SubSeq(s, k + 1, Len(s))) = Len(s) - k
  BY <1>1
<1>4. \A t \in Seq(Units) : t # <<>> <=> Len(t) # 0
  OBVIOUS
<1>5. Len(s) - k # 0 <=> k < Len(s)
  BY <1>1
<1> QED
  BY <1>2, <1>3, <1>4, <1>5

\* A block of n units.
LEMMA BlockFacts ==
  ASSUME NEW r \in Nat, NEW part \in {"header", "file"}, NEW from \in Nat, NEW n \in Nat
  PROVE  Block(r, part, from, n) \in Seq(Units) /\ Len(Block(r, part, from, n)) = n
<1>1. Block(r, part, from, n) \in [1..n -> Units]
  BY DEF Block, Units
<1> QED
  BY <1>1

\* What follows data that is not empty is not empty.
LEMMA Joined ==
  ASSUME NEW s \in Seq(Units), NEW t \in Seq(Units)
  PROVE  /\ s \o t \in Seq(Units)
         /\ t # <<>> => s \o t # <<>>
<1>1. s \o t \in Seq(Units) /\ Len(s \o t) = Len(s) + Len(t) /\ Len(s) \in Nat /\ Len(t) \in Nat
  OBVIOUS
<1>2. t # <<>> => Len(t) # 0
  OBVIOUS
<1> QED
  BY <1>1, <1>2

-----------------------------------------------------------------------------
(* The member functions.                                                     *)

\* closePendingFile ends the pending file and touches nothing else.
LEMMA CloseGood ==
  ASSUME NEW c \in ConnType, NEW hand, Owned(c, hand), HasFile(c) => c.file.r # hand
  PROVE  LET d == closePendingFile(c) IN
         /\ d \in ConnType /\ ~HasFile(d) /\ Owned(d, hand)
         /\ d.out = c.out /\ d.writing = c.writing /\ d.state = c.state
         /\ d.half = c.half /\ d.opened = c.opened
<1> DEFINE d == closePendingFile(c)
<1>1. CASE ~HasFile(c)
  BY <1>1 DEF closePendingFile, HasFile, ConnType
<1>2. CASE HasFile(c)
  <2> DEFINE q == c.file.r
  <2>1. q \in Responses /\ q # 0 /\ c.closes \in [Responses -> Nat]
    BY <1>2 DEF HasFile, Owned, ConnType
  <2>2. PICK b \in BOOLEAN :
          d = [c EXCEPT !.closes = [c.closes EXCEPT ![q] = @ + 1], !.file = NoFile, !.torn = b]
    <3>1. (c.torn \/ c.file.remaining > 0) \in BOOLEAN
      OBVIOUS
    <3>2. d = [c EXCEPT !.closes = [c.closes EXCEPT ![q] = @ + 1], !.file = NoFile,
                        !.torn = c.torn \/ c.file.remaining > 0]
      BY <1>2, <2>1 DEF closePendingFile, ConnType
    <3> QED
      BY <3>1, <3>2, Zenon
  <2>3. /\ d.closes = [c.closes EXCEPT ![q] = @ + 1] /\ d.file = NoFile
        /\ d.out = c.out /\ d.writing = c.writing /\ d.state = c.state
        /\ d.half = c.half /\ d.opened = c.opened
    BY <2>2 DEF ConnType
  <2>4. d \in ConnType
    <3> DEFINE f == [c.closes EXCEPT ![q] = @ + 1]
    <3>1. f \in [Responses -> Nat]
      BY <2>1
    <3>2. NoFile \in [r : Nat, offset : Nat, remaining : Nat]
      BY DEF NoFile
    <3> HIDE DEF f
    <3>3. d = [c EXCEPT !.closes = f, !.file = NoFile, !.torn = b]
      BY <2>2 DEF f
    <3> QED
      BY <3>1, <3>2, <3>3 DEF ConnType
  <2>5. ~HasFile(d) /\ d.file.r = 0
    BY <2>3 DEF HasFile, NoFile
  <2>6. ASSUME NEW r \in Responses
        PROVE  d.closes[r] = IF r \in d.opened /\ d.file.r # r /\ r # hand THEN 1 ELSE 0
    <3>1. r # 0
      BY DEF Responses
    <3>2. c.closes[r] = IF r \in c.opened /\ q # r /\ r # hand THEN 1 ELSE 0
      BY DEF Owned
    <3> QED
      BY <1>2, <2>1, <2>3, <2>5, <3>1, <3>2 DEF Owned
  <2> QED
    BY <2>3, <2>4, <2>5, <2>6 DEF Owned
<1> QED
  BY <1>1, <1>2

\* EPOLLOUT switched to whether there is something to send.
LEMMA SwitchGood ==
  ASSUME NEW c \in ConnType, NEW b \in BOOLEAN, b <=> c.out # <<>> \/ HasFile(c), Quiet(c),
         NEW hand, Owned(c, hand)
  PROVE  LET d == Switch(c, b) IN
         /\ Good(d, hand) /\ d.state = c.state /\ d.out = c.out /\ d.file = c.file
         /\ d.opened = c.opened /\ d.half = c.half
BY DEF Switch, ConnType, Good, Writes, Quiet, Owned, HasFile, Connected

\* sendInLoop of some data on a connection that is connected: what the kernel does
\* not take waits, with EPOLLOUT enabled.
LEMMA SendGood ==
  ASSUME NEW c, NEW hand, Good(c, hand), Connected(c),
         NEW data \in Seq(Units), data # <<>>, NEW k \in -1..Len(data)
  PROVE  LET d == sendInLoop(c, data, k) IN
         Good(d, hand) /\ d.state = c.state /\ d.file = c.file /\ d.opened = c.opened
<1> DEFINE d == sendInLoop(c, data, k)
<1>1. c \in ConnType /\ Writes(c) /\ Quiet(c) /\ Owned(c, hand) /\ ~c.half
  BY DEF Good, Quiet, ConnType
<1>2. CASE ~c.writing /\ c.out = <<>> /\ k = -1
  BY <1>2 DEF sendInLoop
<1>3. CASE ~c.writing /\ c.out = <<>> /\ k # -1
  <2> DEFINE rest == SubSeq(data, k + 1, Len(data))
             wire == c.wire \o SubSeq(data, 1, k)
             e == [c EXCEPT !.wire = wire, !.out = rest]
  <2>1. k \in 0..Len(data)
    BY <1>3
  <2>2. rest \in Seq(Units) /\ (rest # <<>> <=> k < Len(data)) /\ SubSeq(data, 1, k) \in Seq(Units)
    BY <2>1, Rest
  <2>3. wire \in Seq(Units)
    BY <1>1, <2>2, Joined DEF ConnType
  <2>4. ~HasFile(c)
    BY <1>1, <1>3 DEF Writes
  <2>5. PICK b \in BOOLEAN : b = (k < Len(data))
    <3>1. (k < Len(data)) \in BOOLEAN
      OBVIOUS
    <3> QED
      BY <3>1, Zenon
  <2>6. d = [c EXCEPT !.wire = c.wire \o SubSeq(data, 1, k),
                      !.out = SubSeq(data, k + 1, Len(data)), !.writing = k < Len(data)]
    BY <1>1, <1>3 DEF sendInLoop, Accept, ConnType
  <2> HIDE DEF rest, wire, e
  <2>7. d = [c EXCEPT !.wire = wire, !.out = rest, !.writing = b]
    BY <2>5, <2>6 DEF rest, wire
  <2>8. /\ e \in ConnType /\ e.out = rest /\ e.half = c.half /\ e.file = c.file
        /\ e.opened = c.opened /\ e.closes = c.closes /\ e.state = c.state
        /\ d = Switch(e, b)
    BY <1>1, <2>2, <2>3, <2>7 DEF ConnType, e, Switch
  <2>9. Quiet(e) /\ Owned(e, hand) /\ ~HasFile(e)
    BY <1>1, <2>4, <2>8 DEF Quiet, Owned, HasFile
  <2>10. b <=> e.out # <<>> \/ HasFile(e)
    BY <2>2, <2>5, <2>8, <2>9
  <2> QED
    BY <2>8, <2>9, <2>10, SwitchGood
<1>4. CASE c.writing \/ c.out # <<>>
  <2> DEFINE all == c.out \o data
  <2>1. all \in Seq(Units) /\ all # <<>>
    BY <1>1, Joined DEF ConnType
  <2>2. d = [c EXCEPT !.out = all, !.writing = TRUE]
    BY <1>1, <1>4 DEF sendInLoop, ConnType
  <2> HIDE DEF all
  <2>3. /\ d \in ConnType /\ d.out = all /\ d.writing /\ d.half = c.half /\ d.file = c.file
        /\ d.opened = c.opened /\ d.closes = c.closes /\ d.state = c.state
    BY <1>1, <2>1, <2>2 DEF ConnType
  <2> QED
    BY <1>1, <2>1, <2>3 DEF Good, Writes, Quiet, Owned, HasFile
<1> QED
  BY <1>1, <1>2, <1>3, <1>4 DEF ConnType

\* sendPendingFile sends some of the file, and disables EPOLLOUT at its end.
LEMMA PendingGood ==
  ASSUME NEW c, Good(c, 0), NEW m \in -1..c.file.remaining
  PROVE  LET d == sendPendingFile(c, m) IN
         Good(d, 0) /\ d.state = c.state /\ d.out = c.out /\ d.opened = c.opened
<1> DEFINE d == sendPendingFile(c, m)
<1>1. c \in ConnType /\ Writes(c) /\ Quiet(c) /\ Owned(c, 0)
  BY DEF Good
<1>2. CASE ~HasFile(c) \/ c.out # <<>>
  BY <1>2 DEF sendPendingFile
<1>3. CASE HasFile(c) /\ c.out = <<>>
  <2> DEFINE n == IF m = -1 THEN 0 ELSE m
             s == [c EXCEPT !.wire = @ \o Block(c.file.r, "file", c.file.offset, n),
                            !.file = [r |-> @.r, offset |-> @.offset + n,
                                      remaining |-> @.remaining - n]]
             e == IF s.file.remaining = 0 \/ m = -1 THEN closePendingFile(s) ELSE s
  <2>1. d = [e EXCEPT !.writing = @ /\ HasFile(e)]
    BY <1>3 DEF sendPendingFile
  <2>2. n \in Nat /\ c.file.remaining - n \in Nat /\ c.file.offset + n \in Nat
        /\ c.file.r \in Nat /\ c.file.offset \in Nat
    BY <1>1 DEF ConnType
  <2>3. /\ s \in ConnType /\ s.out = c.out /\ s.half = c.half /\ s.file.r = c.file.r
        /\ s.opened = c.opened /\ s.closes = c.closes /\ s.state = c.state
        /\ s.writing = c.writing
    <3> DEFINE wire == c.wire \o Block(c.file.r, "file", c.file.offset, n)
               file == [r |-> c.file.r, offset |-> c.file.offset + n,
                        remaining |-> c.file.remaining - n]
    <3>1. wire \in Seq(Units)
      BY <1>1, <2>2, BlockFacts, Joined DEF ConnType
    <3>2. file \in [r : Nat, offset : Nat, remaining : Nat] /\ file.r = c.file.r
      BY <2>2
    <3>3. s = [c EXCEPT !.wire = wire, !.file = file]
      BY <1>1 DEF ConnType
    <3> HIDE DEF wire, file, s
    <3> QED
      BY <1>1, <3>1, <3>2, <3>3 DEF ConnType
  <2> HIDE DEF s
  <2>4. Owned(s, 0) /\ Quiet(s) /\ HasFile(s) /\ s.file.r # 0
    BY <1>1, <1>3, <2>3 DEF Owned, Quiet, HasFile, Connected
  <2>5. /\ e \in ConnType /\ Owned(e, 0) /\ e.out = c.out /\ e.half = c.half
        /\ e.opened = c.opened /\ e.state = c.state /\ e.writing = c.writing
    BY <2>3, <2>4, CloseGood
  <2> HIDE DEF e
  <2>6. c.writing /\ ~c.half
    BY <1>1, <1>3 DEF Writes, Quiet, ConnType
  <2>7. Quiet(e)
    BY <2>5, <2>6 DEF Quiet
  <2>8. PICK b \in BOOLEAN : b = (e.writing /\ HasFile(e))
    OBVIOUS
  <2>9. d = [e EXCEPT !.writing = e.writing /\ HasFile(e)]
    BY <2>1, <2>5 DEF ConnType
  <2>10. d = Switch(e, b)
    BY <2>8, <2>9 DEF Switch
  <2>11. b <=> e.out # <<>> \/ HasFile(e)
    BY <1>3, <2>5, <2>6, <2>8
  <2> QED
    BY <2>5, <2>7, <2>10, <2>11, SwitchGood
<1> QED
  BY <1>1, <1>2, <1>3

\* sendFileInLoop takes over the descriptor at hand and gives up the one it holds.
LEMMA FileGood ==
  ASSUME NEW c, NEW r \in Responses, Good(c, r), Connected(c), r \in c.opened, c.file.r # r,
         NEW len \in Nat, NEW m \in -1..len
  PROVE  LET d == sendFileInLoop(c, r, len, m) IN
         Good(d, 0) /\ d.state = c.state /\ d.opened = c.opened
<1> DEFINE p == closePendingFile(c)
           file == [r |-> r, offset |-> 0, remaining |-> len]
           d == [p EXCEPT !.file = file, !.writing = TRUE]
<1>1. c \in ConnType /\ Quiet(c) /\ Owned(c, r) /\ ~c.half
  BY DEF Good, Quiet, ConnType
<1>2. /\ p \in ConnType /\ ~HasFile(p) /\ Owned(p, r) /\ p.out = c.out /\ p.state = c.state
      /\ p.half = c.half /\ p.opened = c.opened
  BY <1>1, CloseGood
<1>3. r \in Nat /\ r # 0
  BY MaxResponsesAssumption DEF Responses
<1>4. file \in [r : Nat, offset : Nat, remaining : Nat] /\ file.r = r /\ file.remaining = len
  BY <1>3
<1>5. sendFileInLoop(c, r, len, m) = IF d.out = <<>> THEN sendPendingFile(d, m) ELSE d
  BY DEF sendFileInLoop
<1> HIDE DEF p, file
<1>6. /\ d \in ConnType /\ d.file = file /\ d.writing /\ d.out = c.out /\ d.state = c.state
      /\ d.half = c.half /\ d.opened = c.opened /\ d.closes = p.closes
  BY <1>2, <1>4 DEF ConnType
<1> HIDE DEF d
<1>7. Writes(d) /\ Quiet(d)
  BY <1>1, <1>3, <1>4, <1>6 DEF Writes, Quiet, HasFile
<1>8. Owned(d, 0)
  <2>1. HasFile(d) => d.file.r \in d.opened
    BY <1>2, <1>4, <1>6
  <2>2. ASSUME NEW q \in Responses
        PROVE  d.closes[q] = IF q \in d.opened /\ d.file.r # q /\ q # 0 THEN 1 ELSE 0
    <3>1. q # 0 /\ p.file.r = 0
      BY <1>2 DEF Responses, HasFile
    <3>2. p.closes[q] = IF q \in p.opened /\ p.file.r # q /\ q # r THEN 1 ELSE 0
      BY <1>2 DEF Owned
    <3> QED
      BY <1>2, <1>4, <1>6, <3>1, <3>2
  <2> QED
    BY <2>1, <2>2 DEF Owned
<1>9. Good(d, 0)
  BY <1>6, <1>7, <1>8 DEF Good
<1>10. m \in -1..d.file.remaining
  BY <1>4, <1>6
<1>11. /\ Good(sendPendingFile(d, m), 0) /\ sendPendingFile(d, m).state = d.state
       /\ sendPendingFile(d, m).opened = d.opened
  BY <1>9, <1>10, PendingGood
<1> QED
  BY <1>5, <1>6, <1>9, <1>11

\* shutdownInLoop half-closes a connection that has nothing to send.
LEMMA HalfCloseGood ==
  ASSUME NEW c, Good(c, 0), ~Connected(c)
  PROVE  LET d == shutdownInLoop(c) IN Good(d, 0) /\ d.opened = c.opened
<1> DEFINE d == shutdownInLoop(c)
<1>1. CASE c.writing
  BY <1>1 DEF shutdownInLoop
<1>2. CASE ~c.writing
  <2>1. d = [c EXCEPT !.half = TRUE]
    BY <1>2 DEF shutdownInLoop
  <2>2. /\ d \in ConnType /\ d.file = c.file /\ d.out = c.out /\ d.state = c.state
        /\ d.writing = c.writing /\ d.opened = c.opened /\ d.closes = c.closes
    BY <2>1 DEF ConnType, Good
  <2> QED
    BY <1>2, <2>2 DEF Good, Writes, Quiet, Owned, HasFile, Connected
<1> QED
  BY <1>1, <1>2

\* shutdown half-closes now or leaves it to handleWrite.
LEMMA ShutdownGood ==
  ASSUME NEW c, Good(c, 0)
  PROVE  LET d == shutdown(c) IN Good(d, 0) /\ d.opened = c.opened
<1> DEFINE e == [c EXCEPT !.state = "disconnecting"]
<1>1. /\ e \in ConnType /\ e.file = c.file /\ e.out = c.out /\ e.state = "disconnecting"
      /\ e.writing = c.writing /\ e.opened = c.opened /\ e.closes = c.closes /\ e.half = c.half
  BY DEF ConnType, Good
<1> HIDE DEF e
<1>2. Good(e, 0) /\ ~Connected(e)
  BY <1>1 DEF Good, Writes, Quiet, Owned, HasFile, Connected
<1>3. Good(shutdownInLoop(e), 0) /\ shutdownInLoop(e).opened = e.opened
  BY <1>2, HalfCloseGood
<1> QED
  BY <1>1, <1>3 DEF shutdown, e

\* handleWrite: the buffer, then the file, then the half-close that waited for both.
LEMMA FlushGood ==
  ASSUME NEW c, Good(c, 0), c.writing, c.out # <<>>,
         NEW k \in 1..Len(c.out), NEW m \in -1..c.file.remaining
  PROVE  LET d == FlushOutput(c, k, m) IN Good(d, 0) /\ d.opened = c.opened
<1> DEFINE rest == SubSeq(c.out, k + 1, Len(c.out))
           wire == c.wire \o SubSeq(c.out, 1, k)
           w == [Accept(c, c.out, k) EXCEPT !.out = rest]
           s == sendPendingFile(w, m)
           f == [s EXCEPT !.writing = @ /\ HasFile(s)]
<1>1. c \in ConnType /\ Writes(c) /\ Quiet(c) /\ Owned(c, 0) /\ ~c.half
  BY DEF Good, Quiet, ConnType
<1>2. FlushOutput(c, k, m) =
        IF w.out # <<>> THEN w
        ELSE IF f.state = "disconnecting" THEN shutdownInLoop(f) ELSE f
  BY DEF FlushOutput
<1>3. rest \in Seq(Units) /\ wire \in Seq(Units)
  <2>1. c.out \in Seq(Units) /\ c.wire \in Seq(Units)
    BY <1>1 DEF ConnType
  <2>2. k \in 0..Len(c.out)
    BY <2>1
  <2>3. rest \in Seq(Units) /\ SubSeq(c.out, 1, k) \in Seq(Units)
    BY <2>1, <2>2, Rest
  <2> QED
    BY <2>1, <2>3, Joined
<1>4. w = [c EXCEPT !.wire = wire, !.out = rest]
  BY <1>1 DEF Accept, ConnType
<1> HIDE DEF rest, wire, w
<1>5. /\ w \in ConnType /\ w.file = c.file /\ w.out = rest /\ w.state = c.state
      /\ w.writing = c.writing /\ w.opened = c.opened /\ w.closes = c.closes /\ w.half = c.half
  BY <1>1, <1>3, <1>4 DEF ConnType
<1>6. Quiet(w) /\ Owned(w, 0)
  BY <1>1, <1>5 DEF Quiet, Owned, HasFile
<1>7. CASE w.out # <<>>
  <2>1. Good(w, 0)
    BY <1>5, <1>6, <1>7 DEF Good, Writes
  <2> QED
    BY <1>2, <1>5, <1>7, <2>1
<1>8. CASE w.out = <<>>
  <2>1. /\ s \in ConnType /\ Quiet(s) /\ Owned(s, 0) /\ s.out = <<>> /\ s.opened = c.opened
        /\ HasFile(s) => s.writing
    <3>1. CASE HasFile(w)
      <4>1. Good(w, 0) /\ m \in -1..w.file.remaining
        BY <1>5, <1>6, <3>1 DEF Good, Writes
      <4>2. Good(s, 0) /\ s.out = w.out /\ s.opened = w.opened
        BY <4>1, PendingGood
      <4> QED
        BY <1>5, <1>8, <4>2 DEF Good, Writes
    <3>2. CASE ~HasFile(w)
      <4>1. s = w
        BY <3>2 DEF sendPendingFile
      <4> QED
        BY <1>5, <1>6, <1>8, <3>2, <4>1
    <3> QED
      BY <3>1, <3>2
  <2>2. f = [s EXCEPT !.writing = s.writing /\ HasFile(s)]
    BY <2>1 DEF ConnType
  <2> HIDE DEF s, f
  <2>3. PICK b \in BOOLEAN : b = (s.writing /\ HasFile(s))
    OBVIOUS
  <2>4. f = Switch(s, b)
    BY <2>2, <2>3 DEF Switch
  <2>5. b <=> s.out # <<>> \/ HasFile(s)
    BY <2>1, <2>3
  <2>6. Good(f, 0) /\ f.opened = c.opened
    BY <2>1, <2>4, <2>5, SwitchGood
  <2>7. f.state = "disconnecting" => ~Connected(f)
    BY DEF Connected
  <2>8. f.state = "disconnecting" => Good(shutdownInLoop(f), 0) /\ shutdownInLoop(f).opened = f.opened
    BY <2>6, <2>7, HalfCloseGood
  <2> QED
    BY <1>2, <1>8, <2>6, <2>8
<1> QED
  BY <1>7, <1>8

-----------------------------------------------------------------------------
(* The actions.                                                              *)

\* The next response has no descriptor yet.
LEMMA Fresh ==
  ASSUME IInv, NEW r, r = Len(sent) + 1
  PROVE  /\ r \in Nat /\ r \notin conn.opened /\ conn.file.r # r
         /\ \A x \in Int : Append(sent, x) \in Seq(Int) /\ Len(Append(sent, x)) = r
         /\ conn.opened \cup {r} \subseteq 1..r
<1>1. sent \in Seq(Int) /\ Len(sent) \in Nat /\ conn.opened \subseteq 1..Len(sent)
  BY DEF IInv, TypeOK
<1>2. r \notin conn.opened
  BY <1>1
<1>3. conn.file.r # 0 => conn.file.r \in conn.opened
  BY DEF IInv, Owned, HasFile
<1>4. conn.file.r # r
  BY <1>1, <1>2, <1>3
<1> QED
  BY <1>1, <1>2, <1>4

\* sendResponse opens a file, if there is one, for response r.
Opened(c, r) == [c EXCEPT !.opened = @ \cup {r}]

\* An opened descriptor is at hand until somebody takes it.
LEMMA OpenGood ==
  ASSUME NEW c, Good(c, 0), NEW r \in Responses, r \notin c.opened
  PROVE  LET d == Opened(c, r) IN
         /\ Good(d, r) /\ d.opened = c.opened \cup {r} /\ d.state = c.state
         /\ d.file = c.file /\ d.closes = c.closes
<1> DEFINE d == Opened(c, r)
           o == c.opened \cup {r}
<1>1. o \in SUBSET Responses
  BY DEF Good, ConnType
<1> HIDE DEF o
<1>2. d = [c EXCEPT !.opened = o]
  BY DEF Opened, o, Good, ConnType
<1>3. /\ d \in ConnType /\ d.opened = o /\ d.closes = c.closes /\ d.file = c.file
      /\ d.out = c.out /\ d.writing = c.writing /\ d.half = c.half /\ d.state = c.state
  BY <1>1, <1>2 DEF Good, ConnType
<1>4. Writes(d) /\ Quiet(d)
  BY <1>3 DEF Good, Writes, Quiet, HasFile, Connected
<1>5. ASSUME NEW q \in Responses
      PROVE  d.closes[q] = IF q \in d.opened /\ d.file.r # q /\ q # r THEN 1 ELSE 0
  <2>1. c.closes[q] = IF q \in c.opened /\ c.file.r # q /\ q # 0 THEN 1 ELSE 0
    BY DEF Good, Owned
  <2>2. q # 0 /\ (q \in o <=> q \in c.opened \/ q = r)
    BY DEF Responses, o
  <2> QED
    BY <1>3, <2>1, <2>2
<1>6. HasFile(d) => d.file.r \in d.opened
  BY <1>3 DEF Good, Owned, HasFile, o
<1> QED
  BY <1>3, <1>4, <1>5, <1>6 DEF Good, Owned, o

\* The note that a file is torn says nothing about descriptors and output.
Noted(c, b) == [c EXCEPT !.torn = b]

LEMMA NotedGood ==
  ASSUME NEW c, NEW hand, Good(c, hand), NEW b \in BOOLEAN
  PROVE  LET d == Noted(c, b) IN
         Good(d, hand) /\ d.state = c.state /\ d.file = c.file /\ d.opened = c.opened
<1> DEFINE d == Noted(c, b)
<1>1. /\ d \in ConnType /\ d.opened = c.opened /\ d.closes = c.closes /\ d.file = c.file
      /\ d.out = c.out /\ d.writing = c.writing /\ d.half = c.half /\ d.state = c.state
  BY DEF Noted, Good, ConnType
<1> QED
  BY <1>1 DEF Good, Writes, Quiet, Owned, HasFile, Connected

LEMMA InitInv == Init => IInv
<1> SUFFICES ASSUME Init PROVE IInv
  OBVIOUS
<1> DEFINE z == [r \in Responses |-> 0]
<1>1. z \in [Responses -> Nat] /\ \A r \in Responses : z[r] = 0
  OBVIOUS
<1>2. NoFile \in [r : Nat, offset : Nat, remaining : Nat] /\ NoFile.r = 0
  BY DEF NoFile
<1> HIDE DEF z
<1>3. conn = [state |-> "connecting", writing |-> FALSE, out |-> <<>>,
              file |-> NoFile, wire |-> <<>>, half |-> FALSE, torn |-> FALSE,
              opened |-> {}, closes |-> z]
  BY DEF Init, z
<1>4. TypeOK
  <2>1. <<>> \in Seq(Units) /\ sent \in Seq(Int)
    BY DEF Init
  <2>2. conn \in ConnType
    BY <1>1, <1>2, <1>3, <2>1 DEF ConnType
  <2>3. life \in {"new", "up", "closing", "removed", "destroyed"} /\ reset \in BOOLEAN
    BY DEF Init
  <2> QED
    BY <2>1, <2>2, <2>3 DEF TypeOK
<1>5. Writes(conn) /\ Quiet(conn) /\ Owned(conn, 0) /\ ~conn.half /\ ~HasFile(conn)
  BY <1>1, <1>2, <1>3 DEF Writes, Quiet, Owned, HasFile
<1>6. conn.opened \subseteq 1..Len(sent) /\ life = "new"
  BY <1>3 DEF Init
<1> QED
  BY <1>4, <1>5, <1>6 DEF IInv

\* sendResponse on a connection that is not connected any more.
LEMMA DroppedInv ==
  ASSUME IInv, NEW len \in FileLens \cup {-1}, NEW r \in Responses, r = Len(sent) + 1,
         life = "up", life' = life, reset' = reset, sent' = Append(sent, -1),
         conn' = IF len >= 0 THEN [Opened(conn, r) EXCEPT !.closes[r] = @ + 1] ELSE conn
  PROVE  IInv'
<1>1. /\ r \in Nat /\ r \notin conn.opened /\ conn.file.r # r
      /\ sent' \in Seq(Int) /\ Len(sent') = r /\ conn.opened \cup {r} \subseteq 1..r
  BY Fresh
<1>2. Good(conn, 0)
  BY DEF IInv, TypeOK, Good
<1>3. Good(conn', 0) /\ conn'.opened \subseteq 1..Len(sent)'
  <2>1. CASE ~(len >= 0)
    BY <1>1, <1>2, <2>1
  <2>2. CASE len >= 0
    <3> DEFINE o == Opened(conn, r)
               f == [o.closes EXCEPT ![r] = @ + 1]
    <3>1. /\ Good(o, r) /\ o.opened = conn.opened \cup {r} /\ o.state = conn.state
          /\ o.file = conn.file /\ o.closes = conn.closes
      BY <1>1, <1>2, OpenGood
    <3>2. f \in [Responses -> Nat]
      BY <3>1 DEF Good, ConnType
    <3>3. o.closes[r] = 0
      BY <3>1 DEF Good, Owned
    <3>4. \A q \in Responses : f[q] = IF q = r THEN 1 ELSE o.closes[q]
      BY <3>1, <3>3 DEF Good, ConnType
    <3> HIDE DEF o
    <3>5. conn' = [o EXCEPT !.closes = f]
      BY <2>2, <3>1 DEF o, Good, ConnType
    <3> HIDE DEF f
    <3>6. /\ conn' \in ConnType /\ conn'.opened = o.opened /\ conn'.closes = f
          /\ conn'.file = o.file /\ conn'.out = o.out /\ conn'.writing = o.writing
          /\ conn'.half = o.half /\ conn'.state = o.state
      BY <3>1, <3>2, <3>5 DEF Good, ConnType
    <3>7. Writes(conn') /\ Quiet(conn')
      BY <3>1, <3>6 DEF Good, Writes, Quiet, HasFile, Connected
    <3>8. ASSUME NEW q \in Responses
          PROVE  conn'.closes[q] =
                   IF q \in conn'.opened /\ conn'.file.r # q /\ q # 0 THEN 1 ELSE 0
      <4>1. o.closes[q] = IF q \in o.opened /\ o.file.r # q /\ q # r THEN 1 ELSE 0
        BY <3>1 DEF Good, Owned
      <4>2. q # 0
        BY DEF Responses
      <4> QED
        BY <1>1, <3>1, <3>4, <3>6, <4>1, <4>2
    <3>9. HasFile(conn') => conn'.file.r \in conn'.opened
      BY <3>1, <3>6 DEF Good, Owned, HasFile
    <3> QED
      BY <1>1, <3>1, <3>6, <3>7, <3>8, <3>9 DEF Good, Owned
  <2> QED
    BY <2>1, <2>2
<1> QED
  BY <1>1, <1>3 DEF IInv, TypeOK, Good, Writes, Quiet, Owned, HasFile, Connected

\* sendResponse on a connection that is connected: header, file, shutdown.
LEMMA SentInv ==
  ASSUME IInv, NEW len \in FileLens \cup {-1}, NEW r \in Responses, r = Len(sent) + 1,
         Connected(conn), life = "up", life' = life, reset' = reset,
         sent' = Append(sent, len), NEW k \in WriteOutcomes(HeaderLen),
         NEW m \in SendfileOutcomes(IF len >= 0 THEN len ELSE 0), NEW close \in BOOLEAN,
         LET opened == IF len >= 0 THEN Opened(conn, r) ELSE conn
             o == Noted(opened, opened.torn \/ HasFile(conn))
             h == sendInLoop(o, Block(r, "header", 0, HeaderLen), k)
             f == IF len >= 0 THEN sendFileInLoop(h, r, len, m) ELSE h
         IN  conn' = IF close THEN shutdown(f) ELSE f
  PROVE  IInv'
<1> DEFINE hand == IF len >= 0 THEN r ELSE 0
           opened == IF len >= 0 THEN Opened(conn, r) ELSE conn
           o == Noted(opened, opened.torn \/ HasFile(conn))
           header == Block(r, "header", 0, HeaderLen)
           h == sendInLoop(o, header, k)
           f == IF len >= 0 THEN sendFileInLoop(h, r, len, m) ELSE h
<1>1. /\ r \in Nat /\ r \notin conn.opened /\ conn.file.r # r
      /\ sent' \in Seq(Int) /\ Len(sent') = r /\ conn.opened \cup {r} \subseteq 1..r
  <2>1. len \in Int
    BY FileLensAssumption
  <2> QED
    BY <2>1, Fresh
<1>2. Good(conn, 0) /\ Connected(conn)
  BY DEF IInv, TypeOK, Good
<1>3. /\ Good(opened, hand) /\ Connected(opened) /\ opened.file = conn.file
      /\ opened.opened \subseteq 1..r /\ (len >= 0 => r \in opened.opened)
  <2>1. CASE len >= 0
    BY <1>1, <1>2, <2>1, OpenGood DEF Connected
  <2>2. CASE ~(len >= 0)
    BY <1>1, <1>2, <2>2
  <2> QED
    BY <2>1, <2>2
<1> HIDE DEF opened
<1>4. /\ Good(o, hand) /\ Connected(o) /\ o.file = conn.file
      /\ o.opened \subseteq 1..r /\ (len >= 0 => r \in o.opened)
  <2>1. PICK b \in BOOLEAN : b = (opened.torn \/ HasFile(conn))
    OBVIOUS
  <2>2. o = Noted(opened, b)
    BY <2>1
  <2> HIDE DEF o
  <2> QED
    BY <1>3, <2>2, NotedGood DEF Connected
<1> HIDE DEF o
<1>5. header \in Seq(Units) /\ header # <<>> /\ k \in -1..Len(header)
  <2>1. header \in Seq(Units) /\ Len(header) = HeaderLen
    BY <1>1, HeaderLenAssumption, BlockFacts
  <2> HIDE DEF header
  <2>2. k \in -1..HeaderLen
    BY HeaderLenAssumption DEF WriteOutcomes
  <2> QED
    BY <2>1, <2>2, HeaderLenAssumption
<1> HIDE DEF header
<1>6. /\ Good(h, hand) /\ Connected(h) /\ h.file = conn.file
      /\ h.opened \subseteq 1..r /\ (len >= 0 => r \in h.opened)
  BY <1>4, <1>5, SendGood DEF Connected
<1> HIDE DEF h
<1>7. Good(f, 0) /\ f.opened \subseteq 1..r
  <2>1. CASE len >= 0
    <3>1. len \in Nat /\ m \in -1..len
      BY <2>1, FileLensAssumption DEF SendfileOutcomes
    <3>2. Good(h, r) /\ h.file.r # r
      BY <1>1, <1>6, <2>1
    <3> QED
      BY <1>6, <2>1, <3>1, <3>2, FileGood
  <2>2. CASE ~(len >= 0)
    BY <1>6, <2>2
  <2> QED
    BY <2>1, <2>2
<1> HIDE DEF f
<1>8. Good(shutdown(f), 0) /\ shutdown(f).opened = f.opened
  BY <1>7, ShutdownGood
<1>9. conn' = IF close THEN shutdown(f) ELSE f
  BY DEF f, h, header, o, opened
<1>10. Good(conn', 0) /\ conn'.opened \subseteq 1..Len(sent)'
  BY <1>1, <1>7, <1>8, <1>9
<1> QED
  BY <1>1, <1>10 DEF IInv, TypeOK, Good, Writes, Quiet, Owned, HasFile, Connected

\* handleClose and connectDestroyed give up what is pending.
LEMMA ClosedInv ==
  ASSUME IInv, handleClose \/ connectDestroyed
  PROVE  IInv'
<1> DEFINE p == closePendingFile(conn)
<1>1. /\ p \in ConnType /\ ~HasFile(p) /\ Owned(p, 0) /\ p.out = conn.out
      /\ p.half = conn.half /\ p.opened = conn.opened /\ p.state = conn.state
  BY CloseGood DEF IInv, TypeOK, HasFile
<1> HIDE DEF p
<1>2. CASE handleClose
  <2>1. conn' = [p EXCEPT !.state = "disconnected", !.writing = FALSE]
        /\ life' = "closing" /\ sent' = sent /\ reset' = reset
    BY <1>2 DEF handleClose, p
  <2>2. /\ conn' \in ConnType /\ conn'.file = p.file /\ conn'.out = p.out
        /\ conn'.half = p.half /\ conn'.opened = p.opened /\ conn'.closes = p.closes
        /\ conn'.state = "disconnected"
    BY <1>1, <2>1 DEF ConnType
  <2> QED
    BY <1>1, <2>1, <2>2 DEF IInv, TypeOK, Quiet, Owned, HasFile, Connected
<1>3. CASE connectDestroyed
  <2>1. conn' = p /\ life' = "destroyed" /\ sent' = sent /\ reset' = reset
    BY <1>3 DEF connectDestroyed, p
  <2> QED
    BY <1>1, <2>1 DEF IInv, TypeOK, Quiet, Owned, HasFile, Connected
<1> QED
  BY <1>2, <1>3

LEMMA StepInv == IInv /\ [Next]_vars => IInv'
<1> SUFFICES ASSUME IInv, [Next]_vars PROVE IInv'
  OBVIOUS
<1>1. CASE connectEstablished
  <2>1. /\ life = "new" /\ life' = "up" /\ sent' = sent /\ reset' = reset
        /\ conn' = [conn EXCEPT !.state = "connected"]
    BY <1>1 DEF connectEstablished
  <2>2. /\ conn' \in ConnType /\ conn'.file = conn.file /\ conn'.out = conn.out
        /\ conn'.half = conn.half /\ conn'.opened = conn.opened /\ conn'.closes = conn.closes
        /\ conn'.writing = conn.writing
    BY <2>1 DEF IInv, TypeOK, ConnType
  <2> QED
    BY <2>1, <2>2 DEF IInv, TypeOK, Writes, Quiet, Owned, HasFile
<1>2. ASSUME NEW len \in FileLens \cup {-1}, NEW close \in BOOLEAN, sendResponse(len, close)
      PROVE  IInv'
  <2> DEFINE r == Len(sent) + 1
             opened == IF len >= 0 THEN Opened(conn, r) ELSE conn
  <2>1. life = "up" /\ life' = life /\ reset' = reset /\ r \in Responses
    BY <1>2 DEF sendResponse
  <2>2. CASE ~Connected(conn)
    <3>1. /\ sent' = Append(sent, -1)
          /\ conn' = IF len >= 0 THEN [Opened(conn, r) EXCEPT !.closes[r] = @ + 1] ELSE conn
      BY <1>2, <2>2 DEF sendResponse, Opened
    <3> QED
      BY <2>1, <3>1, DroppedInv
  <2>3. CASE Connected(conn)
    <3>1. sent' = Append(sent, len)
      BY <1>2, <2>3 DEF sendResponse
    <3>2. PICK k \in WriteOutcomes(HeaderLen),
               m \in SendfileOutcomes(IF len >= 0 THEN len ELSE 0) :
            LET o == Noted(opened, opened.torn \/ HasFile(conn))
                h == sendInLoop(o, Block(r, "header", 0, HeaderLen), k)
                f == IF len >= 0 THEN sendFileInLoop(h, r, len, m) ELSE h
            IN  conn' = IF close THEN shutdown(f) ELSE f
      BY <1>2, <2>3 DEF sendResponse, Opened, Noted
    <3> QED
      BY <2>1, <2>3, <3>1, <3>2, SentInv
  <2> QED
    BY <2>2, <2>3
<1>3. CASE handleWrite
  <2>1. PICK k \in WriteOutcomes(Len(conn.out)) \ {-1, 0},
             m \in SendfileOutcomes(conn.file.remaining) : conn' = FlushOutput(conn, k, m)
    BY <1>3 DEF handleWrite
  <2>2. /\ life = "up" /\ life' = life /\ sent' = sent /\ reset' = reset
        /\ conn.writing /\ conn.out # <<>>
    BY <1>3 DEF handleWrite
  <2>3. Good(conn, 0) /\ conn.out \in Seq(Units) /\ conn.file.remaining \in Nat
    BY <2>2 DEF IInv, TypeOK, Good, ConnType
  <2>4. k \in 1..Len(conn.out) /\ m \in -1..conn.file.remaining
    BY <2>3 DEF WriteOutcomes, SendfileOutcomes
  <2>5. Good(conn', 0) /\ conn'.opened = conn.opened
    BY <2>1, <2>2, <2>3, <2>4, FlushGood
  <2> QED
    BY <2>2, <2>5 DEF IInv, TypeOK, Good, Writes, Quiet, Owned, HasFile, Connected
<1>4. CASE handleClose \/ connectDestroyed
  BY <1>4, ClosedInv
<1>5. CASE PeerReset \/ removeConnectionInLoop
  <2>1. conn' = conn /\ sent' = sent /\ reset' \in BOOLEAN
    BY <1>5 DEF IInv, TypeOK, PeerReset, removeConnectionInLoop
  <2>2. life' = life \/ (life = "closing" /\ life' = "removed")
    BY <1>5 DEF PeerReset, removeConnectionInLoop
  <2> QED
    BY <2>1, <2>2 DEF IInv, TypeOK, Writes, Quiet, Owned, HasFile, Connected
<1>6. CASE UNCHANGED vars
  BY <1>6 DEF vars, IInv, TypeOK, Writes, Quiet, Owned, HasFile, Connected
<1> QED
  BY <1>1, <1>2, <1>3, <1>4, <1>5, <1>6 DEF Next, handleWriteEmpty, Destroyed

\* The inductive invariant holds throughout.
THEOREM Inductive == Spec => []IInv
BY InitInv, StepInv, PTL DEF Spec

\* EPOLLOUT is enabled exactly while sendInLoop, sendFileInLoop or handleWrite has
\* left something to send, however the kernel splits the writes: the loop neither
\* spins on an idle socket nor forgets output.
THEOREM WritingTracksOutput == Spec => []WritingIffOutput
<1>1. IInv => WritingIffOutput
  BY DEF IInv, WritingIffOutput, Writes
<1> QED
  BY <1>1, Inductive, PTL

\* shutdownInLoop, called from shutdown() or later from handleWrite, half-closes the
\* socket only when neither the buffer nor a pending file holds output.
THEOREM HalfCloseWaits == Spec => []ShutdownAfterOutput
<1>1. IInv => ShutdownAfterOutput
  BY DEF IInv, ShutdownAfterOutput, Quiet
<1> QED
  BY <1>1, Inductive, PTL

\* Every descriptor that sendResponse opens is closed exactly once, by
\* closePendingFile or by sendResponse itself, or is the one pendingFile_ holds; the
\* destructor leaves none open.
THEOREM DescriptorsClosed == Spec => []DescriptorsOwned
<1>1. IInv => DescriptorsOwned
  <2>1. \A r \in Responses : r # 0
    BY DEF Responses
  <2> QED
    BY <2>1 DEF IInv, DescriptorsOwned, Owned
<1> QED
  BY <1>1, Inductive, PTL

-----------------------------------------------------------------------------
(* The stream.                                                               *)

\* More responses do not change what is due before them.
LEMMA StreamGrows ==
  ASSUME NEW ss \in Seq(Int), NEW x \in Int, NEW s \in Seq(Units), Begins(ss, s)
  PROVE  /\ Begins(Append(ss, x), s)
         /\ Due(Append(ss, x), s) = Due(ss, s)
<1> DEFINE tt == Append(ss, x)
<1>1. Len(tt) = Len(ss) + 1 /\ Len(ss) \in Nat /\ \A i \in 1..Len(ss) : tt[i] = ss[i]
  BY AppendProperties
<1> HIDE DEF tt
<1>2. \A i \in 1..Len(s) : s[i][1] \in 1..Len(ss) /\ tt[s[i][1]] = ss[s[i][1]]
  BY <1>1 DEF Begins
<1>3. \A i \in 1..Len(s) : Following(tt, s[i]) = Following(ss, s[i])
  BY <1>2 DEF Following
<1>4. Len(s) \in Nat /\ (s # <<>> => Len(s) \in 1..Len(s))
  BY EmptySeq
<1>5. Due(tt, s) = Due(ss, s)
  BY <1>3, <1>4 DEF Due
<1>6. ASSUME NEW i \in 1..Len(s)
      PROVE  /\ s[i][1] \in 1..Len(tt)
             /\ s[i] = IF i = 1 THEN <<1, "header", 1>> ELSE Following(tt, s[i - 1])
  <2>1. s[i][1] \in 1..Len(tt)
    BY <1>1, <1>2
  <2>2. s[i] = IF i = 1 THEN <<1, "header", 1>> ELSE Following(ss, s[i - 1])
    BY DEF Begins
  <2>3. i # 1 => i - 1 \in 1..Len(s)
    BY <1>4
  <2> QED
    BY <1>3, <2>1, <2>2, <2>3
<1> QED
  BY <1>5, <1>6 DEF Begins, tt

\* A prefix of a beginning is a beginning.
LEMMA FrontFacts ==
  ASSUME NEW ss, NEW s \in Seq(Units), NEW t \in Seq(Units), Begins(ss, s \o t)
  PROVE  Begins(ss, s)
<1>1. /\ Len(s \o t) = Len(s) + Len(t) /\ Len(s) \in Nat /\ Len(t) \in Nat
      /\ \A i \in 1..Len(s) : i \in 1..Len(s \o t) /\ (s \o t)[i] = s[i]
  BY ConcatProperties
<1> DEFINE all == s \o t
<1>2. \A i \in 1..Len(all) :
        /\ all[i][1] \in 1..Len(ss)
        /\ all[i] = IF i = 1 THEN <<1, "header", 1>> ELSE Following(ss, all[i - 1])
  BY DEF Begins
<1> HIDE DEF all
<1>3. ASSUME NEW i \in 1..Len(s)
      PROVE  /\ s[i][1] \in 1..Len(ss)
             /\ s[i] = IF i = 1 THEN <<1, "header", 1>> ELSE Following(ss, s[i - 1])
  <2>1. i \in 1..Len(all) /\ all[i] = s[i]
    BY <1>1 DEF all
  <2>2. i # 1 => i - 1 \in 1..Len(s)
    BY <1>1
  <2>3. i # 1 => all[i - 1] = s[i - 1]
    BY <1>1, <2>2 DEF all
  <2> QED
    BY <1>2, <2>1, <2>3
<1> QED
  BY <1>3 DEF Begins

\* A block whose first unit is due goes on with the stream.
LEMMA BlockFollows ==
  ASSUME NEW ss, NEW s \in Seq(Units), Begins(ss, s),
         NEW r \in Nat, r \in 1..Len(ss), Len(ss) \in Nat, NEW part \in {"header", "file"},
         NEW from \in Nat, NEW n \in Nat \ {0}, Due(ss, s) = <<r, part, from + 1>>,
         NEW limit \in Int, limit = IF part = "header" THEN HeaderLen ELSE ss[r],
         from + n <= limit
  PROVE  LET t == s \o Block(r, part, from, n) IN
         Begins(ss, t) /\ Due(ss, t) = Following(ss, <<r, part, from + n>>)
<1> DEFINE b == Block(r, part, from, n)
           t == s \o b
           l == Len(s)
<1>1. b \in Seq(Units) /\ Len(b) = n /\ \A i \in 1..n : b[i] = <<r, part, from + i>>
  <2>1. b \in Seq(Units) /\ Len(b) = n
    <3>1. n \in Nat /\ b \in [1..n -> Units]
      BY DEF Block, Units
    <3> HIDE DEF b
    <3> QED
      BY <3>1
  <2>2. \A i \in 1..n : b[i] = <<r, part, from + i>>
    BY DEF Block
  <2> QED
    BY <2>1, <2>2
<1> HIDE DEF b
<1>2. /\ t \in Seq(Units) /\ Len(t) = l + n /\ l \in Nat
      /\ \A i \in 1..l + n : t[i] = IF i <= l THEN s[i] ELSE b[i - l]
  <2>1. /\ t \in Seq(Units) /\ Len(t) = Len(s) + Len(b)
        /\ \A i \in 1..Len(s) + Len(b) : t[i] = IF i <= Len(s) THEN s[i] ELSE b[i - Len(s)]
    BY <1>1, ConcatProperties
  <2>2. l \in Nat
    OBVIOUS
  <2> HIDE DEF t
  <2> QED
    BY <1>1, <2>1, <2>2
<1> HIDE DEF t, l
<1>3. \A i \in 1..n : t[l + i] = <<r, part, from + i>>
  <2> TAKE i \in 1..n
  <2>1. l + i \in 1..l + n /\ ~(l + i <= l) /\ (l + i) - l = i
    BY <1>2
  <2> QED
    BY <1>1, <1>2, <2>1
<1>4. \A i \in 1..l : t[i] = s[i]
  BY <1>2
<1>5. ASSUME NEW i \in 1..Len(t)
      PROVE  /\ t[i][1] \in 1..Len(ss)
             /\ t[i] = IF i = 1 THEN <<1, "header", 1>> ELSE Following(ss, t[i - 1])
  <2>1. CASE i <= l
    <3>1. i \in 1..l /\ (i # 1 => i - 1 \in 1..l)
      BY <1>2, <2>1
    <3>2. t[i] = s[i] /\ (i # 1 => t[i - 1] = s[i - 1])
      BY <1>4, <3>1
    <3> QED
      BY <3>1, <3>2 DEF Begins, l
  <2>2. CASE i = l + 1
    <3>1. t[i] = <<r, part, from + 1>> /\ t[i][1] = r
      BY <1>3, <2>2
    <3>2. CASE s = <<>>
      <4>1. i = 1
        BY <2>2, <3>2, EmptySeq DEF l
      <4> QED
        BY <3>1, <3>2, <4>1 DEF Due
    <3>3. CASE s # <<>>
      <4>1. l \in 1..l /\ i # 1 /\ i - 1 = l
        BY <2>2, <3>3, EmptySeq DEF l
      <4>2. t[i - 1] = s[Len(s)]
        BY <1>4, <4>1 DEF l
      <4> QED
        BY <3>1, <3>3, <4>1, <4>2 DEF Due
    <3> QED
      BY <3>2, <3>3
  <2>3. CASE i > l + 1
    <3> DEFINE j == i - l
               q == j - 1
    <3>1. j \in 1..n /\ q \in 1..n /\ i = l + j /\ i - 1 = l + q /\ i # 1 /\ j = q + 1
      <4>1. l \in Nat /\ i \in Nat /\ i <= l + n /\ i >= l + 2
        BY <1>2, <2>3
      <4> QED
        BY <4>1
    <3> HIDE DEF j, q
    <3>2. t[i] = <<r, part, from + j>> /\ t[i - 1] = <<r, part, from + q>>
      BY <1>3, <3>1
    <3>3. from + q < limit /\ (from + q) + 1 = from + j
      BY <3>1
    <3>4. Following(ss, <<r, part, from + q>>) = <<r, part, (from + q) + 1>>
      BY <3>3 DEF Following
    <3>5. t[i][1] \in 1..Len(ss)
      BY <3>2
    <3> QED
      BY <3>1, <3>2, <3>3, <3>4, <3>5
  <2> QED
    BY <1>2, <2>1, <2>2, <2>3
<1>6. t # <<>> /\ t[Len(t)] = <<r, part, from + n>>
  <2>1. t[Len(t)] = <<r, part, from + n>>
    BY <1>2, <1>3
  <2>2. Len(t) # 0
    BY <1>2
  <2> QED
    BY <2>1, <2>2, EmptySeq
<1> QED
  BY <1>5, <1>6 DEF Begins, Due, t, b

\* Appending in two steps.
LEMMA Assoc ==
  ASSUME NEW s \in Seq(Units), NEW t \in Seq(Units), NEW u \in Seq(Units)
  PROVE  (s \o t) \o u = s \o (t \o u)
BY ConcatAssociative

\* What Flow says depends on the data, the pending file and whether the connection is
\* still connected.
LEMMA SameFlow ==
  ASSUME NEW c, NEW d, NEW ss, Flow(c, ss), d.wire \o d.out = c.wire \o c.out, d.file = c.file,
         Connected(d) => Connected(c)
  PROVE  Flow(d, ss)
BY DEF Flow, HasFile

\* closePendingFile sends nothing, and notes when it tears the stream.
LEMMA CloseMoves ==
  ASSUME NEW c \in ConnType, HasFile(c) => c.file.r \in Responses
  PROVE  LET d == closePendingFile(c) IN
         /\ d.wire = c.wire /\ d.out = c.out /\ d.state = c.state
         /\ d.file = IF HasFile(c) THEN NoFile ELSE c.file
         /\ (d.torn <=> c.torn \/ (HasFile(c) /\ c.file.remaining > 0))
<1> DEFINE d == closePendingFile(c)
<1>1. CASE ~HasFile(c)
  BY <1>1 DEF closePendingFile
<1>2. CASE HasFile(c)
  <2> DEFINE f == [c.closes EXCEPT ![c.file.r] = @ + 1]
             x == c.torn \/ c.file.remaining > 0
  <2>1. d = [c EXCEPT !.closes = f, !.file = NoFile, !.torn = x]
    BY <1>2 DEF closePendingFile, ConnType
  <2> HIDE DEF f, x, d
  <2>2. d.wire = c.wire /\ d.out = c.out /\ d.state = c.state /\ d.file = NoFile /\ d.torn = x
    BY <2>1 DEF ConnType
  <2> QED
    BY <1>2, <2>2 DEF x, d
<1> QED
  BY <1>1, <1>2

\* sendInLoop puts data after what is on the wire and in the buffer, or drops it.
LEMMA SendMoves ==
  ASSUME NEW c \in ConnType, NEW data \in Seq(Units), NEW k \in -1..Len(data)
  PROVE  LET d == sendInLoop(c, data, k) IN
         /\ k = -1 => d.wire = c.wire
         /\ k # -1 => d.wire \o d.out = (c.wire \o c.out) \o data
         /\ d.torn = c.torn /\ d.file = c.file /\ d.state = c.state /\ d \in ConnType
<1> DEFINE d == sendInLoop(c, data, k)
<1>1. c.wire \in Seq(Units) /\ c.out \in Seq(Units)
  BY DEF ConnType
<1>2. CASE ~c.writing /\ c.out = <<>> /\ k = -1
  BY <1>2 DEF sendInLoop
<1>3. CASE ~c.writing /\ c.out = <<>> /\ k # -1
  <2> DEFINE front == SubSeq(data, 1, k)
             rest == SubSeq(data, k + 1, Len(data))
             wire == c.wire \o front
  <2>1. k \in 0..Len(data)
    BY <1>3
  <2>2. front \in Seq(Units) /\ rest \in Seq(Units)
    BY <2>1, Rest
  <2>3. front \o rest = data
    <3>1. Len(data) \in Nat /\ 1 \in 1..Len(data) + 1 /\ k \in 1 - 1..Len(data)
          /\ Len(data) \in k..Len(data)
      BY <2>1
    <3>2. SubSeq(data, 1, k) \o SubSeq(data, k + 1, Len(data)) = SubSeq(data, 1, Len(data))
      BY <3>1, ConcatAdjacentSubSeq
    <3>3. SubSeq(data, 1, Len(data)) = data
      BY SubSeqFull
    <3> QED
      BY <3>2, <3>3
  <2>4. PICK b \in BOOLEAN : d = [c EXCEPT !.wire = wire, !.out = rest, !.writing = b]
    <3>1. (k < Len(data)) \in BOOLEAN
      OBVIOUS
    <3>2. d = [c EXCEPT !.wire = wire, !.out = rest, !.writing = k < Len(data)]
      BY <1>3 DEF sendInLoop, Accept, ConnType
    <3> QED
      BY <3>1, <3>2, Zenon
  <2>8. wire \in Seq(Units)
    BY <1>1, <2>2, ConcatProperties
  <2> HIDE DEF front, rest, wire
  <2>5. /\ d.wire = wire /\ d.out = rest /\ d.torn = c.torn /\ d.file = c.file
        /\ d.state = c.state /\ d \in ConnType
    BY <2>2, <2>4, <2>8 DEF ConnType
  <2>6. wire \o rest = c.wire \o (front \o rest)
    BY <1>1, <2>2, Assoc DEF wire
  <2>7. c.wire \o c.out = c.wire
    BY <1>1, <1>3, ConcatEmptySeq
  <2> QED
    BY <1>3, <2>3, <2>5, <2>6, <2>7
<1>4. CASE c.writing \/ c.out # <<>>
  <2> DEFINE all == c.out \o data
  <2>1. d = [c EXCEPT !.out = all, !.writing = TRUE]
    BY <1>4 DEF sendInLoop, ConnType
  <2>4. all \in Seq(Units)
    BY <1>1, ConcatProperties
  <2> HIDE DEF all
  <2>2. /\ d.wire = c.wire /\ d.out = all /\ d.torn = c.torn /\ d.file = c.file
        /\ d.state = c.state /\ d \in ConnType
    BY <2>1, <2>4 DEF ConnType
  <2>3. c.wire \o all = (c.wire \o c.out) \o data
    BY <1>1, Assoc DEF all
  <2> QED
    BY <2>2, <2>3
<1> QED
  BY <1>2, <1>3, <1>4

\* closePendingFile leaves a connection record.
LEMMA CloseType ==
  ASSUME NEW c \in ConnType, HasFile(c), c.file.r \in Responses
  PROVE  closePendingFile(c) \in ConnType
<1> DEFINE f == [c.closes EXCEPT ![c.file.r] = @ + 1]
<1>1. f \in [Responses -> Nat] /\ NoFile \in [r : Nat, offset : Nat, remaining : Nat]
  BY DEF ConnType, NoFile
<1>2. PICK b \in BOOLEAN : b = (c.torn \/ c.file.remaining > 0)
  <2>1. (c.torn \/ c.file.remaining > 0) \in BOOLEAN
    OBVIOUS
  <2> QED
    BY <2>1, Zenon
<1> HIDE DEF f
<1>3. closePendingFile(c) = [c EXCEPT !.closes = f, !.file = NoFile, !.torn = b]
  BY <1>2 DEF closePendingFile, ConnType, f
<1> QED
  BY <1>1, <1>3 DEF ConnType

\* sendPendingFile goes on with the stream, or notes that it is torn.
LEMMA PendingFlow ==
  ASSUME NEW c \in ConnType, NEW m \in -1..c.file.remaining, NEW ss \in Seq(Int),
         HasFile(c) => c.file.r \in Responses
  PROVE  LET d == sendPendingFile(c, m) IN
         /\ d \in ConnType
         /\ c.torn => d.torn
         /\ m = -1 => d.wire = c.wire
         /\ Flow(c, ss) => d.torn \/ Flow(d, ss)
<1> DEFINE d == sendPendingFile(c, m)
<1>1. CASE ~HasFile(c) \/ c.out # <<>>
  BY <1>1 DEF sendPendingFile
<1>2. CASE HasFile(c) /\ c.out = <<>>
  <2> DEFINE n == IF m = -1 THEN 0 ELSE m
             blk == Block(c.file.r, "file", c.file.offset, n)
             wire == c.wire \o blk
             file == [r |-> c.file.r, offset |-> c.file.offset + n,
                      remaining |-> c.file.remaining - n]
             s == [c EXCEPT !.wire = wire, !.file = file]
             e == IF s.file.remaining = 0 \/ m = -1 THEN closePendingFile(s) ELSE s
             x == e.writing /\ HasFile(e)
  <2>1. d = [e EXCEPT !.writing = @ /\ HasFile(e)]
    BY <1>2 DEF sendPendingFile, ConnType
  <2>2. /\ n \in Nat /\ c.file.offset \in Nat /\ c.file.remaining \in Nat /\ c.file.r \in Nat
        /\ c.file.remaining - n \in Nat /\ c.file.offset + n \in Nat
        /\ c.wire \in Seq(Units) /\ n <= c.file.remaining /\ (m = -1 => n = 0)
    BY DEF ConnType
  <2> HIDE DEF n
  <2>3. blk \in Seq(Units) /\ Len(blk) = n
    BY <2>2, BlockFacts
  <2> HIDE DEF blk
  <2>4. wire \in Seq(Units)
    BY <2>2, <2>3, ConcatProperties
  <2>5. file \in [r : Nat, offset : Nat, remaining : Nat] /\ file.r = c.file.r
        /\ file.offset = c.file.offset + n /\ file.remaining = c.file.remaining - n
    BY <2>2
  <2> HIDE DEF wire, file
  <2>6. /\ s \in ConnType /\ s.wire = wire /\ s.file = file /\ s.out = c.out
        /\ s.torn = c.torn /\ s.state = c.state
    BY <2>4, <2>5 DEF ConnType
  <2> HIDE DEF s
  <2>7. HasFile(s) /\ s.file.r \in Responses
    BY <1>2, <2>5, <2>6 DEF HasFile
  <2>8. /\ e.wire = wire /\ e.out = c.out /\ e.state = c.state /\ e \in ConnType
        /\ (e.torn <=> c.torn \/ (m = -1 /\ file.remaining > 0))
        /\ e.file = IF file.remaining = 0 \/ m = -1 THEN NoFile ELSE file
    <3>1. CASE file.remaining = 0 \/ m = -1
      <4>1. e = closePendingFile(s)
        BY <2>6, <3>1
      <4>2. closePendingFile(s) \in ConnType
        BY <2>6, <2>7, CloseType
      <4> QED
        BY <2>5, <2>6, <2>7, <3>1, <4>1, <4>2, CloseMoves
    <3>2. CASE ~(file.remaining = 0 \/ m = -1)
      BY <2>6, <3>2
    <3> QED
      BY <3>1, <3>2
  <2> HIDE DEF e
  <2>9. d = [e EXCEPT !.writing = x]
    BY <2>1, <2>8 DEF ConnType
  <2>13. d \in ConnType
    <3>1. PICK b \in BOOLEAN : b = x
      OBVIOUS
    <3> HIDE DEF x
    <3>2. d = [e EXCEPT !.writing = b]
      BY <2>9, <3>1
    <3> QED
      BY <2>8, <3>2 DEF ConnType
  <2> HIDE DEF x
  <2>10. d.wire = wire /\ d.out = <<>> /\ d.state = c.state /\ d.torn = e.torn /\ d.file = e.file
    BY <1>2, <2>8, <2>9 DEF ConnType
  <2>11. m = -1 => wire = c.wire
    <3>1. m = -1 => blk = <<>>
      BY <2>2, <2>3, EmptySeq
    <3> QED
      BY <2>2, <3>1, ConcatEmptySeq DEF wire
  <2>12. ASSUME Flow(c, ss), ~d.torn PROVE Flow(d, ss)
    <3> DEFINE r == c.file.r
               after == IF file.remaining > 0 THEN <<r, "file", file.offset + 1>>
                        ELSE <<r + 1, "header", 1>>
    <3>1. c.wire \o c.out = c.wire /\ d.wire \o d.out = wire
      BY <1>2, <2>2, <2>4, <2>10, ConcatEmptySeq
    <3>2. /\ Begins(ss, c.wire) /\ r \in 1..Len(ss) /\ (Connected(c) => r = Len(ss))
          /\ c.file.offset + c.file.remaining = ss[r]
          /\ Due(ss, c.wire) = IF c.file.remaining > 0 THEN <<r, "file", c.file.offset + 1>>
                               ELSE <<r + 1, "header", 1>>
      BY <1>2, <2>12, <3>1 DEF Flow
    <3>3. Len(ss) \in Nat /\ ss[r] \in Int
      BY <3>2
    <3>0. /\ c.file.offset + n <= ss[r]
          /\ c.file.offset + n < ss[r] <=> c.file.remaining - n > 0
          /\ (c.file.offset + n) + (c.file.remaining - n) = ss[r]
          /\ n # 0 => c.file.remaining > 0
      <4> DEFINE a == c.file.offset
                 b == c.file.remaining
                 l == ss[r]
      <4>1. a \in Nat /\ b \in Nat /\ l \in Int /\ a + b = l /\ n \in Nat /\ n <= b
        BY <2>2, <3>2, <3>3
      <4> HIDE DEF a, b, l
      <4>2. a + n <= l /\ (a + n < l <=> b - n > 0) /\ (a + n) + (b - n) = l /\ (n # 0 => b > 0)
        BY <4>1
      <4> QED
        BY <4>2 DEF a, b, l
    <3>4. Begins(ss, wire) /\ Due(ss, wire) = after
      <4>1. CASE n = 0
        <5>1. wire = c.wire
          <6>1. blk = <<>>
            BY <2>3, <4>1, EmptySeq
          <6> QED
            BY <2>2, <6>1, ConcatEmptySeq DEF wire
        <5>2. file.remaining = c.file.remaining /\ file.offset = c.file.offset
          BY <2>2, <2>5, <4>1
        <5> QED
          BY <3>2, <5>1, <5>2
      <4>2. CASE n # 0
        <5>1. /\ n \in Nat \ {0} /\ c.file.offset + n <= ss[r]
              /\ Due(ss, c.wire) = <<r, "file", c.file.offset + 1>>
          BY <2>2, <3>2, <3>0, <4>2
        <5>2. /\ Begins(ss, wire)
              /\ Due(ss, wire) = Following(ss, <<r, "file", c.file.offset + n>>)
          <6> DEFINE w == c.wire
                     from == c.file.offset
                     limit == IF "file" = "header" THEN HeaderLen ELSE ss[r]
          <6>1. /\ w \in Seq(Units) /\ from \in Nat /\ limit \in Int /\ from + n <= limit
                /\ Begins(ss, w) /\ Due(ss, w) = <<r, "file", from + 1>>
                /\ r \in Nat /\ r \in 1..Len(ss) /\ n \in Nat \ {0} /\ Len(ss) \in Nat
            BY <2>2, <3>2, <3>3, <5>1
          <6>2. wire = w \o Block(r, "file", from, n)
            BY DEF wire, blk
          <6> HIDE DEF w, from, r
          <6>3. /\ Begins(ss, w \o Block(r, "file", from, n))
                /\ Due(ss, w \o Block(r, "file", from, n)) = Following(ss, <<r, "file", from + n>>)
            BY <6>1, BlockFollows
          <6> QED
            BY <6>2, <6>3 DEF from, r
        <5>3. Following(ss, <<r, "file", c.file.offset + n>>) =
                IF c.file.offset + n < ss[r] THEN <<r, "file", (c.file.offset + n) + 1>>
                ELSE <<r + 1, "header", 1>>
          BY DEF Following
        <5>4. c.file.offset + n < ss[r] <=> file.remaining > 0
          BY <2>5, <3>0
        <5> QED
          BY <2>5, <5>2, <5>3, <5>4
      <4> QED
        BY <4>1, <4>2
    <3>5. CASE file.remaining = 0
      <4>1. ~HasFile(d) /\ after = <<r + 1, "header", 1>>
        BY <2>8, <2>10, <3>5 DEF HasFile, NoFile
      <4>2. Connected(d) => r = Len(ss)
        BY <2>10, <3>2 DEF Connected
      <4> QED
        BY <3>1, <3>4, <4>1, <4>2 DEF Flow
    <3>6. CASE file.remaining # 0
      <4>1. file.remaining > 0 /\ m # -1 /\ d.file = file
        BY <2>2, <2>5, <2>8, <2>10, <2>12, <3>6
      <4>2. HasFile(d)
        BY <1>2, <2>5, <4>1 DEF HasFile
      <4>3. file.offset + file.remaining = ss[r]
        BY <2>5, <3>0
      <4>4. Connected(d) => r = Len(ss)
        BY <2>10, <3>2 DEF Connected
      <4> QED
        BY <2>5, <3>1, <3>2, <3>4, <4>1, <4>2, <4>3, <4>4 DEF Flow
    <3> QED
      BY <3>5, <3>6
  <2> QED
    BY <2>8, <2>10, <2>11, <2>12, <2>13
<1> QED
  BY <1>1, <1>2

\* sendFileInLoop goes on with the stream if the file is due.
LEMMA FileFlow ==
  ASSUME NEW c \in ConnType, HasFile(c) => c.file.r \in Responses, NEW r \in Responses,
         NEW len \in Nat, NEW m \in -1..len, NEW ss \in Seq(Int)
  PROVE  LET d == sendFileInLoop(c, r, len, m) IN
         /\ d \in ConnType
         /\ c.torn => d.torn
         /\ m = -1 => d.wire = c.wire
         /\ /\ Begins(ss, c.wire \o c.out) /\ r = Len(ss) /\ ss[r] = len
            /\ Due(ss, c.wire \o c.out) = IF len > 0 THEN <<r, "file", 1>>
                                          ELSE <<r + 1, "header", 1>>
            => d.torn \/ Flow(d, ss)
<1> DEFINE p == closePendingFile(c)
           file == [r |-> r, offset |-> 0, remaining |-> len]
           e == [p EXCEPT !.file = file, !.writing = TRUE]
           s == sendPendingFile(e, m)
           d == sendFileInLoop(c, r, len, m)
<1>1. /\ p \in ConnType /\ p.wire = c.wire /\ p.out = c.out /\ (c.torn => p.torn)
  <2>1. p.wire = c.wire /\ p.out = c.out /\ (c.torn => p.torn)
    BY CloseMoves
  <2>2. CASE HasFile(c)
    BY <2>1, <2>2, CloseType
  <2>3. CASE ~HasFile(c)
    BY <2>1, <2>3 DEF closePendingFile
  <2> QED
    BY <2>2, <2>3
<1>2. r \in Nat /\ r # 0 /\ r \in 1..r
  BY MaxResponsesAssumption DEF Responses
<1>3. /\ file \in [r : Nat, offset : Nat, remaining : Nat] /\ file.r = r
      /\ file.offset = 0 /\ file.remaining = len
  BY <1>2
<1>4. d = IF e.out = <<>> THEN s ELSE e
  BY DEF sendFileInLoop
<1> HIDE DEF p, file, d
<1>5. e \in ConnType /\ e.file = file /\ e.wire = c.wire /\ e.out = c.out /\ e.torn = p.torn
  BY <1>1, <1>3 DEF ConnType
<1> HIDE DEF e
<1>6. HasFile(e) /\ e.file.r \in Responses /\ m \in -1..e.file.remaining
  BY <1>2, <1>3, <1>5 DEF HasFile
<1>7. s \in ConnType /\ (e.torn => s.torn) /\ (m = -1 => s.wire = e.wire) /\ (Flow(e, ss) => s.torn \/ Flow(s, ss))
  BY <1>5, <1>6, PendingFlow
<1> HIDE DEF s
<1>8. ASSUME Begins(ss, c.wire \o c.out), r = Len(ss), ss[r] = len,
             Due(ss, c.wire \o c.out) = IF len > 0 THEN <<r, "file", 1>>
                                        ELSE <<r + 1, "header", 1>>
      PROVE  Flow(e, ss)
  <2>1. /\ Begins(ss, e.wire \o e.out)
        /\ Due(ss, e.wire \o e.out) = IF e.file.remaining > 0
                                      THEN <<e.file.r, "file", e.file.offset + 1>>
                                      ELSE <<e.file.r + 1, "header", 1>>
    BY <1>3, <1>5, <1>8
  <2>2. e.file.r \in 1..Len(ss) /\ e.file.r = Len(ss)
        /\ e.file.offset + e.file.remaining = ss[e.file.r]
    BY <1>2, <1>3, <1>5, <1>8
  <2> QED
    BY <1>6, <2>1, <2>2 DEF Flow
<1>9. d \in ConnType /\ (c.torn => d.torn) /\ (m = -1 => d.wire = c.wire)
  BY <1>1, <1>4, <1>5, <1>7
<1>10. Flow(e, ss) => d.torn \/ Flow(d, ss)
  BY <1>4, <1>7
<1> QED
  BY <1>8, <1>9, <1>10 DEF d

\* A shutdown moves no data.
LEMMA ShutdownMoves ==
  ASSUME NEW c \in ConnType
  PROVE  LET d == shutdown(c)
             h == shutdownInLoop(c)
         IN  /\ d.wire = c.wire /\ d.out = c.out /\ d.file = c.file /\ d.torn = c.torn
             /\ Connected(d) => Connected(c)
             /\ h.wire = c.wire /\ h.out = c.out /\ h.file = c.file /\ h.torn = c.torn
             /\ h.state = c.state
<1> DEFINE e == [c EXCEPT !.state = "disconnecting"]
<1>1. ASSUME NEW x \in ConnType
      PROVE  LET h == shutdownInLoop(x) IN
             /\ h.wire = x.wire /\ h.out = x.out /\ h.file = x.file /\ h.torn = x.torn
             /\ h.state = x.state
  <2>1. CASE x.writing
    BY <2>1 DEF shutdownInLoop
  <2>2. CASE ~x.writing
    BY <2>2 DEF shutdownInLoop, ConnType
  <2> QED
    BY <2>1, <2>2
<1>2. e \in ConnType /\ e.wire = c.wire /\ e.out = c.out /\ e.file = c.file /\ e.torn = c.torn
  BY DEF ConnType
<1> HIDE DEF e
<1>3. shutdown(c) = IF Connected(c) THEN shutdownInLoop(e) ELSE c
  BY DEF shutdown, e
<1> QED
  BY <1>1, <1>2, <1>3

\* handleWrite moves data from the buffer to the wire and goes on with the file.
LEMMA FlushFlow ==
  ASSUME NEW c \in ConnType, HasFile(c) => c.file.r \in Responses,
         NEW k \in 1..Len(c.out), NEW m \in -1..c.file.remaining, NEW ss \in Seq(Int)
  PROVE  LET d == FlushOutput(c, k, m) IN
         /\ c.torn => d.torn
         /\ Flow(c, ss) => d.torn \/ Flow(d, ss)
<1> DEFINE front == SubSeq(c.out, 1, k)
           rest == SubSeq(c.out, k + 1, Len(c.out))
           wire == c.wire \o front
           w == [Accept(c, c.out, k) EXCEPT !.out = rest]
           s == sendPendingFile(w, m)
           f == [s EXCEPT !.writing = @ /\ HasFile(s)]
           d == FlushOutput(c, k, m)
<1>1. c.out \in Seq(Units) /\ c.wire \in Seq(Units) /\ k \in 0..Len(c.out)
  BY DEF ConnType
<1>2. d = IF w.out # <<>> THEN w
          ELSE IF f.state = "disconnecting" THEN shutdownInLoop(f) ELSE f
  BY DEF FlushOutput
<1>3. front \in Seq(Units) /\ rest \in Seq(Units)
  BY <1>1, Rest
<1>4. front \o rest = c.out
  <2> DEFINE out == c.out
  <2>1. out \in Seq(Units) /\ k \in 1..Len(out)
    BY <1>1
  <2> HIDE DEF out
  <2>2. Len(out) \in Nat /\ 1 \in 1..Len(out) + 1 /\ k \in 1 - 1..Len(out) /\ Len(out) \in k..Len(out)
    BY <2>1
  <2>3. SubSeq(out, 1, k) \o SubSeq(out, k + 1, Len(out)) = SubSeq(out, 1, Len(out))
    BY <2>1, <2>2, ConcatAdjacentSubSeq
  <2>4. SubSeq(out, 1, Len(out)) = out
    BY <2>1, SubSeqFull
  <2> QED
    BY <2>3, <2>4 DEF out
<1>5. w = [c EXCEPT !.wire = wire, !.out = rest]
  BY DEF Accept, ConnType
<1>6. wire \in Seq(Units)
  BY <1>1, <1>3, ConcatProperties
<1> HIDE DEF front, rest
<1>7. wire \o rest = c.wire \o c.out
  <2>1. (c.wire \o front) \o rest = c.wire \o (front \o rest)
    BY <1>1, <1>3, Assoc
  <2> QED
    BY <1>4, <2>1
<1> HIDE DEF wire, w, d
<1>8. /\ w \in ConnType /\ w.wire = wire /\ w.out = rest /\ w.file = c.file /\ w.torn = c.torn
      /\ w.state = c.state
  BY <1>3, <1>5, <1>6 DEF ConnType
<1>9. Flow(c, ss) => Flow(w, ss)
  BY <1>7, <1>8, SameFlow DEF Connected
<1>10. /\ s \in ConnType /\ (w.torn => s.torn)
       /\ Flow(w, ss) => s.torn \/ Flow(s, ss)
  BY <1>8, PendingFlow DEF HasFile
<1>12. f \in ConnType /\ f.wire = s.wire /\ f.out = s.out /\ f.file = s.file /\ f.torn = s.torn
       /\ f.state = s.state
  <2>1. PICK b \in BOOLEAN : b = (s.writing /\ HasFile(s))
    OBVIOUS
  <2> HIDE DEF s
  <2>2. f = [s EXCEPT !.writing = b]
    BY <1>10, <2>1 DEF ConnType
  <2> HIDE DEF f
  <2> QED
    BY <1>10, <2>2 DEF ConnType
<1> HIDE DEF s, f
<1>13. Flow(s, ss) => Flow(f, ss) /\ Flow(shutdownInLoop(f), ss)
  <2>1. Flow(s, ss) => Flow(f, ss)
    BY <1>12, SameFlow DEF Connected
  <2>2. Flow(f, ss) => Flow(shutdownInLoop(f), ss)
    BY <1>12, ShutdownMoves, SameFlow DEF Connected
  <2> QED
    BY <2>1, <2>2
<1>14. shutdownInLoop(f).torn = f.torn
  BY <1>12, ShutdownMoves
<1> QED
  BY <1>2, <1>8, <1>9, <1>10, <1>12, <1>13, <1>14 DEF d

\* Flow also says that what is on the wire begins the stream.
LEMMA WireBegins ==
  ASSUME NEW c \in ConnType, NEW ss, Flow(c, ss)
  PROVE  Begins(ss, c.wire)
<1>1. Begins(ss, c.wire \o c.out)
  BY DEF Flow
<1>2. c.wire \in Seq(Units) /\ c.out \in Seq(Units)
  BY DEF ConnType
<1> QED
  BY <1>1, <1>2, FrontFacts

\* A response that is dropped, and one more in sent.
LEMMA DroppedFlow ==
  ASSUME NEW c \in ConnType, NEW ss \in Seq(Int), NEW d, ~Connected(c),
         d.wire = c.wire, d.out = c.out, d.file = c.file, d.state = c.state, Flow(c, ss)
  PROVE  Flow(d, Append(ss, -1))
<1> DEFINE tt == Append(ss, -1)
           all == c.wire \o c.out
<1>1. /\ c.wire \in Seq(Units) /\ c.out \in Seq(Units) /\ all \in Seq(Units)
      /\ d.wire \o d.out = all
  <2>1. c.wire \in Seq(Units) /\ c.out \in Seq(Units)
    BY DEF ConnType
  <2> QED
    BY <2>1, ConcatProperties
<1>2. Begins(ss, all)
  BY DEF Flow
<1>3. HasFile(c) => /\ c.file.r \in 1..Len(ss)
                    /\ c.file.offset + c.file.remaining = ss[c.file.r]
                    /\ Due(ss, all) = IF c.file.remaining > 0
                                      THEN <<c.file.r, "file", c.file.offset + 1>>
                                      ELSE <<c.file.r + 1, "header", 1>>
  BY DEF Flow
<1> HIDE DEF all
<1>4. Begins(tt, all) /\ Due(tt, all) = Due(ss, all)
  BY <1>1, <1>2, StreamGrows
<1>5. Len(tt) = Len(ss) + 1 /\ Len(ss) \in Nat /\ \A i \in 1..Len(ss) : i \in 1..Len(tt) /\ tt[i] = ss[i]
  BY AppendProperties
<1> HIDE DEF tt
<1>6. ~Connected(d) /\ (HasFile(d) <=> HasFile(c))
  BY DEF Connected, HasFile
<1>7. Flow(d, tt)
  BY <1>1, <1>3, <1>4, <1>5, <1>6 DEF Flow
<1> QED
  BY <1>7 DEF tt

\* The header of the next response is due, and after it the file or the one after it.
LEMMA HeaderFollows ==
  ASSUME NEW ss \in Seq(Int), NEW len \in Int, NEW r, r = Len(ss) + 1,
         NEW s \in Seq(Units), Begins(ss, s), Due(ss, s) = <<r, "header", 1>>
  PROVE  LET tt == Append(ss, len)
             t == s \o Block(r, "header", 0, HeaderLen)
         IN  /\ Begins(tt, t)
             /\ Due(tt, t) = IF len > 0 THEN <<r, "file", 1>> ELSE <<r + 1, "header", 1>>
<1> DEFINE tt == Append(ss, len)
           t == s \o Block(r, "header", 0, HeaderLen)
           limit == IF "header" = "header" THEN HeaderLen ELSE tt[r]
<1>1. Len(tt) = r /\ tt[r] = len /\ r \in Nat /\ r \in 1..Len(tt) /\ Len(tt) \in Nat
  <2>1. Len(ss) \in Nat /\ Len(tt) = Len(ss) + 1 /\ tt[Len(ss) + 1] = len
    BY AppendProperties
  <2> HIDE DEF tt
  <2> QED
    BY <2>1
<1>2. Begins(tt, s) /\ Due(tt, s) = <<r, "header", 0 + 1>>
  BY StreamGrows
<1> HIDE DEF tt
<1>3. limit \in Int /\ 0 + HeaderLen <= limit /\ HeaderLen \in Nat \ {0} /\ 0 \in Nat
  BY HeaderLenAssumption
<1>4. Begins(tt, t) /\ Due(tt, t) = Following(tt, <<r, "header", 0 + HeaderLen>>)
  BY <1>1, <1>2, <1>3, BlockFollows
<1>5. Following(tt, <<r, "header", 0 + HeaderLen>>) =
        IF len > 0 THEN <<r, "file", 1>> ELSE <<r + 1, "header", 1>>
  BY <1>1, <1>3 DEF Following
<1> QED
  BY <1>4, <1>5 DEF tt

\* sendResponse on a connection that is connected.
LEMMA SentFlow ==
  ASSUME IInv, IInv', SInv, NEW len \in FileLens \cup {-1}, NEW r \in Responses,
         r = Len(sent) + 1, Connected(conn), life = "up", life' = life, reset' = reset,
         sent' = Append(sent, len), NEW k \in WriteOutcomes(HeaderLen),
         NEW m \in SendfileOutcomes(IF len >= 0 THEN len ELSE 0), NEW close \in BOOLEAN,
         LET opened == IF len >= 0 THEN Opened(conn, r) ELSE conn
             o == Noted(opened, opened.torn \/ HasFile(conn))
             h == sendInLoop(o, Block(r, "header", 0, HeaderLen), k)
             f == IF len >= 0 THEN sendFileInLoop(h, r, len, m) ELSE h
         IN  conn' = IF close THEN shutdown(f) ELSE f
  PROVE  SInv'
<1> DEFINE opened == IF len >= 0 THEN Opened(conn, r) ELSE conn
           x == opened.torn \/ HasFile(conn)
           o == Noted(opened, x)
           header == Block(r, "header", 0, HeaderLen)
           h == sendInLoop(o, header, k)
           f == IF len >= 0 THEN sendFileInLoop(h, r, len, m) ELSE h
           all == conn.wire \o conn.out
<1>1. /\ conn \in ConnType /\ sent \in Seq(Int) /\ r \in Nat /\ len \in Int /\ Good(conn, 0)
      /\ r \notin conn.opened /\ (HasFile(conn) => conn.file.r \in Responses)
      /\ conn.wire \in Seq(Units) /\ conn.out \in Seq(Units)
  <2>1. conn \in ConnType /\ sent \in Seq(Int) /\ Good(conn, 0)
    BY DEF IInv, TypeOK, Good
  <2>2. r \in Nat /\ r \notin conn.opened
    BY Fresh
  <2>3. HasFile(conn) => conn.file.r \in Responses
    BY <2>1 DEF IInv, Owned, ConnType
  <2> QED
    BY <2>1, <2>2, <2>3, FileLensAssumption DEF ConnType
<1>2. /\ opened \in ConnType /\ opened.wire = conn.wire /\ opened.out = conn.out
      /\ opened.file = conn.file /\ opened.torn = conn.torn /\ opened.state = conn.state
  <2>1. CASE len >= 0
    <3>1. opened \in ConnType
      BY <1>1, <2>1, OpenGood DEF Good
    <3> QED
      BY <1>1, <2>1, <3>1 DEF Opened, ConnType
  <2>2. CASE ~(len >= 0)
    BY <1>1, <2>2
  <2> QED
    BY <2>1, <2>2
<1> HIDE DEF opened
<1>3. /\ o \in ConnType /\ o.wire = conn.wire /\ o.out = conn.out
      /\ o.file = conn.file /\ o.state = conn.state
      /\ (o.torn <=> conn.torn \/ HasFile(conn))
  <2>1. PICK b \in BOOLEAN : b = x
    OBVIOUS
  <2>2. o = [opened EXCEPT !.torn = b]
    BY <2>1 DEF Noted
  <2> HIDE DEF o, x
  <2>3. /\ o \in ConnType /\ o.wire = conn.wire /\ o.out = conn.out
        /\ o.file = conn.file /\ o.state = conn.state /\ o.torn = b
    BY <1>2, <2>2 DEF ConnType
  <2> QED
    BY <1>2, <2>1, <2>3 DEF x
<1> HIDE DEF x, o
<1>4. header \in Seq(Units) /\ k \in -1..Len(header) /\ header # <<>>
  <2>1. header \in Seq(Units) /\ Len(header) = HeaderLen
    BY <1>1, HeaderLenAssumption, BlockFacts
  <2> HIDE DEF header
  <2>2. k \in -1..HeaderLen
    BY HeaderLenAssumption DEF WriteOutcomes
  <2> QED
    BY <2>1, <2>2, HeaderLenAssumption
<1> HIDE DEF header
<1>5. /\ k = -1 => h.wire = conn.wire
      /\ k # -1 => h.wire \o h.out = all \o header
      /\ h.torn = o.torn /\ h.file = conn.file /\ h.state = conn.state /\ h \in ConnType
  <2>1. /\ k = -1 => h.wire = o.wire
        /\ k # -1 => h.wire \o h.out = (o.wire \o o.out) \o header
        /\ h.torn = o.torn /\ h.file = o.file /\ h.state = o.state /\ h \in ConnType
    BY <1>3, <1>4, SendMoves
  <2> QED
    BY <1>3, <2>1
<1> HIDE DEF h
<1>7. HasFile(h) => h.file.r \in Responses
  BY <1>1, <1>5 DEF HasFile
<1>8. len >= 0 => len \in Nat /\ m \in -1..len
  BY <1>1, FileLensAssumption DEF SendfileOutcomes
<1>9. f \in ConnType /\ (h.torn => f.torn)
  <2>1. CASE len >= 0
    <3>1. LET g == sendFileInLoop(h, r, len, m) IN g \in ConnType /\ (h.torn => g.torn)
      BY <1>1, <1>5, <1>7, <1>8, <2>1, FileFlow
    <3> QED
      BY <2>1, <3>1
  <2>2. CASE ~(len >= 0)
    BY <1>5, <2>2
  <2> QED
    BY <2>1, <2>2
<1>10. conn' = IF close THEN shutdown(f) ELSE f
  BY DEF f, h, header, o, x, opened
<1>11. /\ conn'.wire = f.wire /\ conn'.out = f.out /\ conn'.file = f.file /\ conn'.torn = f.torn
       /\ (Connected(conn') => Connected(f))
  <2> HIDE DEF f
  <2> QED
    BY <1>9, <1>10, ShutdownMoves
<1>12. ASSUME ~conn'.torn, reset PROVE Begins(sent', conn'.wire)
  <2>1. ~conn.torn
    BY <1>3, <1>5, <1>9, <1>11, <1>12
  <2>2. Begins(sent', conn.wire)
    BY <1>1, <2>1, StreamGrows DEF SInv
  <2>3. k = -1 /\ m = -1
    BY <1>12 DEF WriteOutcomes, SendfileOutcomes
  <2>4. f.wire = conn.wire
    <3>1. CASE len >= 0
      <4>1. sendFileInLoop(h, r, len, m).wire = h.wire
        BY <1>1, <1>5, <1>7, <1>8, <2>3, <3>1, FileFlow
      <4> QED
        BY <1>5, <2>3, <3>1, <4>1
    <3>2. CASE ~(len >= 0)
      BY <1>5, <2>3, <3>2
    <3> QED
      BY <3>1, <3>2
  <2> QED
    BY <1>11, <2>2, <2>4
<1>13. ASSUME ~conn'.torn, ~reset PROVE Flow(conn', sent')
  <2>1. ~conn.torn /\ ~HasFile(conn) /\ ~f.torn
    BY <1>3, <1>5, <1>9, <1>11, <1>13
  <2>2. Begins(sent, all) /\ Due(sent, all) = <<r, "header", 1>>
    BY <1>13, <2>1 DEF SInv, Flow
  <2>3. all \in Seq(Units)
    BY <1>1, ConcatProperties
  <2> HIDE DEF all
  <2>4. /\ Begins(sent', all \o header)
        /\ Due(sent', all \o header) = IF len > 0 THEN <<r, "file", 1>> ELSE <<r + 1, "header", 1>>
    BY <1>1, <2>2, <2>3, HeaderFollows DEF header
  <2>5. k # -1
    BY <1>13, HeaderLenAssumption DEF WriteOutcomes
  <2>6. h.wire \o h.out = all \o header /\ ~HasFile(h)
    BY <1>5, <2>1, <2>5 DEF all, HasFile
  <2>7. Len(sent') = r /\ sent'[r] = len /\ sent' \in Seq(Int)
    BY <1>1, AppendProperties
  <2>8. Flow(f, sent')
    <3>1. CASE len >= 0
      <4>1. /\ Begins(sent', h.wire \o h.out) /\ r = Len(sent') /\ sent'[r] = len
            /\ Due(sent', h.wire \o h.out) = IF len > 0 THEN <<r, "file", 1>>
                                             ELSE <<r + 1, "header", 1>>
        BY <2>4, <2>6, <2>7
      <4>2. f = sendFileInLoop(h, r, len, m)
        BY <3>1
      <4>3. \A ss \in Seq(Int) :
              /\ Begins(ss, h.wire \o h.out) /\ r = Len(ss) /\ ss[r] = len
              /\ Due(ss, h.wire \o h.out) = IF len > 0 THEN <<r, "file", 1>>
                                            ELSE <<r + 1, "header", 1>>
              => f.torn \/ Flow(f, ss)
        BY <1>5, <1>7, <1>8, <3>1, <4>2, FileFlow
      <4> HIDE DEF f
      <4> QED
        BY <2>1, <2>7, <4>1, <4>3
    <3>2. CASE ~(len >= 0)
      <4>1. ~(len > 0) /\ f = h
        BY <1>1, <3>2
      <4> QED
        BY <2>4, <2>6, <2>7, <4>1 DEF Flow
    <3> QED
      BY <3>1, <3>2
  <2> HIDE DEF f
  <2> QED
    BY <1>11, <2>8, SameFlow
<1>14. conn' \in ConnType
  BY DEF IInv, TypeOK
<1> QED
  BY <1>12, <1>13, <1>14, WireBegins DEF SInv

LEMMA StreamInit == Init => SInv
<1> SUFFICES ASSUME Init PROVE SInv
  OBVIOUS
<1>1. /\ conn.wire = <<>> /\ conn.out = <<>> /\ sent = <<>> /\ ~HasFile(conn)
      /\ ~Connected(conn)
  BY DEF Init, HasFile, NoFile, Connected
<1>2. <<>> \o <<>> = <<>>
  OBVIOUS
<1>3. Begins(sent, <<>>)
  BY DEF Begins
<1>4. Flow(conn, sent)
  BY <1>1, <1>2, <1>3 DEF Flow
<1> QED
  BY <1>1, <1>3, <1>4 DEF SInv

LEMMA StreamStep == IInv /\ IInv' /\ SInv /\ [Next]_vars => SInv'
<1> SUFFICES ASSUME IInv, IInv', SInv, [Next]_vars PROVE SInv'
  OBVIOUS
<1>0. /\ conn \in ConnType /\ conn' \in ConnType /\ sent \in Seq(Int)
      /\ (HasFile(conn) => conn.file.r \in Responses)
  BY DEF IInv, TypeOK, Owned, ConnType
<1>1. CASE connectEstablished
  <2>1. /\ life = "new" /\ life' = "up" /\ sent' = sent /\ reset' = reset
        /\ conn' = [conn EXCEPT !.state = "connected"]
    BY <1>1 DEF connectEstablished
  <2>2. conn.wire = <<>> /\ conn.out = <<>> /\ sent = <<>> /\ ~HasFile(conn)
    BY <2>1 DEF SInv
  <2>3. conn'.wire = <<>> /\ conn'.out = <<>> /\ conn'.file = conn.file
    BY <1>0, <2>1, <2>2 DEF ConnType
  <2>4. <<>> \o <<>> = <<>> /\ Len(<<>>) + 1 = 1
    OBVIOUS
  <2>5. Begins(sent', <<>>) /\ Due(sent', <<>>) = <<1, "header", 1>>
    BY DEF Begins, Due
  <2>6. Flow(conn', sent')
    BY <2>1, <2>2, <2>3, <2>4, <2>5 DEF Flow, HasFile
  <2> QED
    BY <2>1, <2>3, <2>5, <2>6 DEF SInv
<1>2. ASSUME NEW len \in FileLens \cup {-1}, NEW close \in BOOLEAN, sendResponse(len, close)
      PROVE  SInv'
  <2> DEFINE r == Len(sent) + 1
             opened == IF len >= 0 THEN Opened(conn, r) ELSE conn
  <2>1. life = "up" /\ life' = life /\ reset' = reset /\ r \in Responses
    BY <1>2 DEF sendResponse
  <2>2. CASE ~Connected(conn)
    <3>1. /\ sent' = Append(sent, -1)
          /\ conn' = IF len >= 0 THEN [Opened(conn, r) EXCEPT !.closes[r] = @ + 1] ELSE conn
      BY <1>2, <2>2 DEF sendResponse, Opened
    <3>2. /\ conn'.wire = conn.wire /\ conn'.out = conn.out /\ conn'.file = conn.file
          /\ conn'.state = conn.state /\ conn'.torn = conn.torn
      BY <1>0, <3>1 DEF Opened, ConnType
    <3>3. ~conn.torn => Begins(sent', conn.wire)
      <4>1. conn.wire \in Seq(Units) /\ -1 \in Int
        BY <1>0 DEF ConnType
      <4>2. ~conn.torn => Begins(sent, conn.wire)
        BY DEF SInv
      <4>3. \A x \in Int : Begins(sent, conn.wire) => Begins(Append(sent, x), conn.wire)
        BY <1>0, <4>1, StreamGrows
      <4> QED
        BY <3>1, <4>1, <4>2, <4>3
    <3>4. Flow(conn, sent) => Flow(conn', sent')
      BY <1>0, <2>2, <3>1, <3>2, DroppedFlow
    <3> QED
      BY <2>1, <3>2, <3>3, <3>4 DEF SInv
  <2>3. CASE Connected(conn)
    <3>1. sent' = Append(sent, len)
      BY <1>2, <2>3 DEF sendResponse
    <3>2. PICK k \in WriteOutcomes(HeaderLen),
               m \in SendfileOutcomes(IF len >= 0 THEN len ELSE 0) :
            LET o == Noted(opened, opened.torn \/ HasFile(conn))
                h == sendInLoop(o, Block(r, "header", 0, HeaderLen), k)
                f == IF len >= 0 THEN sendFileInLoop(h, r, len, m) ELSE h
            IN  conn' = IF close THEN shutdown(f) ELSE f
      BY <1>2, <2>3 DEF sendResponse, Opened, Noted
    <3> QED
      BY <2>1, <2>3, <3>1, <3>2, SentFlow
  <2> QED
    BY <2>2, <2>3
<1>3. CASE handleWrite
  <2>1. PICK k \in WriteOutcomes(Len(conn.out)) \ {-1, 0},
             m \in SendfileOutcomes(conn.file.remaining) : conn' = FlushOutput(conn, k, m)
    BY <1>3 DEF handleWrite
  <2>2. life = "up" /\ life' = life /\ sent' = sent /\ reset' = reset
    BY <1>3 DEF handleWrite
  <2>3. conn.out \in Seq(Units) /\ conn.file.remaining \in Nat
    BY <1>0 DEF ConnType
  <2>4. k \in 1..Len(conn.out) /\ m \in -1..conn.file.remaining /\ ~reset
    BY <2>3 DEF WriteOutcomes, SendfileOutcomes
  <2>5. /\ conn.torn => conn'.torn
        /\ Flow(conn, sent) => conn'.torn \/ Flow(conn', sent)
    BY <1>0, <2>1, <2>4, FlushFlow
  <2>6. ~conn'.torn => Flow(conn', sent')
    BY <2>2, <2>4, <2>5 DEF SInv
  <2> QED
    BY <1>0, <2>2, <2>6, WireBegins DEF SInv
<1>4. CASE handleClose
  <2> DEFINE p == closePendingFile(conn)
  <2>1. /\ p.wire = conn.wire /\ p.out = conn.out /\ (conn.torn => p.torn)
        /\ p.file = IF HasFile(conn) THEN NoFile ELSE conn.file
    BY <1>0, CloseMoves
  <2>2. p \in ConnType
    <3>1. CASE HasFile(conn)
      BY <1>0, <3>1, CloseType
    <3>2. CASE ~HasFile(conn)
      BY <1>0, <3>2 DEF closePendingFile
    <3> QED
      BY <3>1, <3>2
  <2> HIDE DEF p
  <2>3. /\ conn' = [p EXCEPT !.state = "disconnected", !.writing = FALSE]
        /\ life' = "closing" /\ sent' = sent /\ reset' = reset
    BY <1>4 DEF handleClose, p
  <2>4. /\ conn'.wire = conn.wire /\ conn'.out = conn.out /\ conn'.torn = p.torn
        /\ conn'.file = p.file /\ conn'.state = "disconnected"
    BY <2>1, <2>2, <2>3 DEF ConnType
  <2>5. ~HasFile(conn') /\ ~Connected(conn')
    BY <2>1, <2>4 DEF HasFile, NoFile, Connected
  <2>6. Flow(conn, sent) => Flow(conn', sent)
    BY <2>4, <2>5 DEF Flow
  <2> QED
    BY <2>1, <2>3, <2>4, <2>6 DEF SInv
<1>5. CASE connectDestroyed
  <2>1. conn' = conn /\ life' = "destroyed" /\ sent' = sent /\ reset' = reset
    BY <1>5 DEF connectDestroyed, closePendingFile, IInv
  <2> QED
    BY <2>1 DEF SInv
<1>6. CASE PeerReset \/ removeConnectionInLoop
  <2>1. conn' = conn /\ sent' = sent /\ life' # "new" /\ (~reset' => ~reset)
    BY <1>6 DEF PeerReset, removeConnectionInLoop
  <2> QED
    BY <2>1 DEF SInv
<1>7. CASE UNCHANGED vars
  BY <1>7 DEF vars, SInv
<1> QED
  BY <1>1, <1>2, <1>3, <1>4, <1>5, <1>6, <1>7 DEF Next, handleWriteEmpty, Destroyed

\* However the kernel splits the writes, what sendInLoop, sendPendingFile and
\* handleWrite put on the wire is a prefix of the responses in their order, no unit of
\* one inside of another, unless a file was given up or overtaken.
THEOREM StreamKept == Spec => []StreamIntact
<1>1. SInv => StreamIntact
  BY DEF SInv, StreamIntact
<1> QED
  BY <1>1, InitInv, StepInv, StreamInit, StreamStep, PTL DEF Spec

-----------------------------------------------------------------------------
(* The routes.                                                               *)

\* The paths of two, three and four segments that the server looks for; the id of a
\* scene or artwork may be anything, also empty.
Two(p, b) == Len(p) = 2 /\ p[1] = "api" /\ p[2] = b
Three(p, b, c) == Len(p) = 3 /\ p[1] = "api" /\ p[2] = b /\ p[3] = c
Item(p, b) == Len(p) = 3 /\ p[1] = "api" /\ p[2] = b
Of(p, d) == Len(p) = 4 /\ p[1] = "api" /\ p[2] = "artworks" /\ p[3] # "" /\ p[4] = d

\* What the pattern of each route comes to.
Shape(i, p) ==
    /\ i = 1 => Two(p, "auth")
    /\ i = 2 => Three(p, "auth", "logout")
    /\ i = 3 => Three(p, "visitors", "session")
    /\ i = 4 => Three(p, "presence", "heartbeat")
    /\ i = 5 => Three(p, "presence", "exit")
    /\ i = 6 => Two(p, "presence")
    /\ i = 7 => Three(p, "statistics", "views")
    /\ i = 8 => Two(p, "scenes")
    /\ i = 9 => Item(p, "scenes") /\ p[3] # ""
    /\ i = 10 => Item(p, "artworks") /\ p[3] # ""
    /\ i \in {11, 12} => Of(p, "likes")
    /\ i \in {13, 14} => Of(p, "comments")

\* The shapes, one by one.
LEMMA Shapes ==
  ASSUME NEW p
  PROVE  /\ Shape(1, p) <=> Two(p, "auth")
         /\ Shape(2, p) <=> Three(p, "auth", "logout")
         /\ Shape(3, p) <=> Three(p, "visitors", "session")
         /\ Shape(4, p) <=> Three(p, "presence", "heartbeat")
         /\ Shape(5, p) <=> Three(p, "presence", "exit")
         /\ Shape(6, p) <=> Two(p, "presence")
         /\ Shape(7, p) <=> Three(p, "statistics", "views")
         /\ Shape(8, p) <=> Two(p, "scenes")
         /\ Shape(9, p) <=> (Item(p, "scenes") /\ p[3] # "")
         /\ Shape(10, p) <=> (Item(p, "artworks") /\ p[3] # "")
         /\ Shape(11, p) <=> Of(p, "likes")
         /\ Shape(12, p) <=> Of(p, "likes")
         /\ Shape(13, p) <=> Of(p, "comments")
         /\ Shape(14, p) <=> Of(p, "comments")
<1>1. Shape(1, p) <=> Two(p, "auth")
  BY DEF Shape
<1>2. Shape(2, p) <=> Three(p, "auth", "logout")
  BY DEF Shape
<1>3. Shape(3, p) <=> Three(p, "visitors", "session")
  BY DEF Shape
<1>4. Shape(4, p) <=> Three(p, "presence", "heartbeat")
  BY DEF Shape
<1>5. Shape(5, p) <=> Three(p, "presence", "exit")
  BY DEF Shape
<1>6. Shape(6, p) <=> Two(p, "presence")
  BY DEF Shape
<1>7. Shape(7, p) <=> Three(p, "statistics", "views")
  BY DEF Shape
<1>8. Shape(8, p) <=> Two(p, "scenes")
  BY DEF Shape
<1>9. Shape(9, p) <=> (Item(p, "scenes") /\ p[3] # "")
  BY DEF Shape
<1>10. Shape(10, p) <=> (Item(p, "artworks") /\ p[3] # "")
  BY DEF Shape
<1>11. Shape(11, p) <=> Of(p, "likes")
  BY DEF Shape
<1>12. Shape(12, p) <=> Of(p, "likes")
  BY DEF Shape
<1>13. Shape(13, p) <=> Of(p, "comments")
  BY DEF Shape
<1>14. Shape(14, p) <=> Of(p, "comments")
  BY DEF Shape
<1> QED
  BY <1>1, <1>2, <1>3, <1>4, <1>5, <1>6, <1>7, <1>8, <1>9, <1>10,
     <1>11, <1>12, <1>13, <1>14

\* The fourteen routes, one by one.
LEMMA RouteList ==
  /\ DOMAIN Routes = 1..14
  /\ Routes[1] = Route("auth", "POST", TRUE, "nobody", <<"api", "auth">>)
  /\ Routes[2] = Route("auth", "POST", TRUE, "user", <<"api", "auth", "logout">>)
  /\ Routes[3] = Route("visitors", "POST", TRUE, "nobody", <<"api", "visitors", "session">>)
  /\ Routes[4] = Route("visitors", "POST", TRUE, "visitor", <<"api", "presence", "heartbeat">>)
  /\ Routes[5] = Route("visitors", "POST", TRUE, "visitor", <<"api", "presence", "exit">>)
  /\ Routes[6] = Route("visitors", "GET", TRUE, "nobody", <<"api", "presence">>)
  /\ Routes[7] = Route("visitors", "GET", TRUE, "nobody", <<"api", "statistics", "views">>)
  /\ Routes[8] = Route("scenes", "GET", FALSE, "nobody", <<"api", "scenes">>)
  /\ Routes[9] = Route("scenes", "GET", FALSE, "nobody", <<"api", "scenes", Param>>)
  /\ Routes[10] = Route("artworks", "GET", TRUE, "nobody", <<"api", "artworks", Param>>)
  /\ Routes[11] = Route("artworks", "POST", TRUE, "user", <<"api", "artworks", Param, "likes">>)
  /\ Routes[12] = Route("artworks", "DELETE", TRUE, "user", <<"api", "artworks", Param, "likes">>)
  /\ Routes[13] = Route("artworks", "GET", TRUE, "nobody", <<"api", "artworks", Param, "comments">>)
  /\ Routes[14] = Route("artworks", "POST", TRUE, "user", <<"api", "artworks", Param, "comments">>)
BY DEF Routes

\* What a route has, by its number.
MethodOf(i) == CASE i \in {1, 2, 3, 4, 5, 11, 14} -> "POST" [] i = 12 -> "DELETE" [] OTHER -> "GET"
ReadsOf(i) == CASE i \in {2, 11, 12, 14} -> "user" [] i \in {4, 5} -> "visitor" [] OTHER -> "nobody"

LEMMA RouteFields ==
  ASSUME NEW i \in 1..14
  PROVE  Routes[i].method = MethodOf(i) /\ Routes[i].reads = ReadsOf(i)
<1> USE RouteList DEF Route, MethodOf, ReadsOf
<1>1. CASE i \in 1..5
  BY <1>1
<1>2. CASE i \in 6..10
  BY <1>2
<1>3. CASE i \in 11..14
  BY <1>3
<1> QED
  BY <1>1, <1>2, <1>3

\* A path is one of two, three or four given segments.
LEMMA Spelled ==
  ASSUME NEW p \in Seq(STRING)
  PROVE  /\ \A a, b : p = <<a, b>> <=> (Len(p) = 2 /\ p[1] = a /\ p[2] = b)
         /\ \A a, b, c : p = <<a, b, c>> <=> (Len(p) = 3 /\ p[1] = a /\ p[2] = b /\ p[3] = c)
<1>1. ASSUME NEW a, NEW b PROVE p = <<a, b>> <=> (Len(p) = 2 /\ p[1] = a /\ p[2] = b)
  OBVIOUS
<1>2. ASSUME NEW a, NEW b, NEW c
      PROVE  p = <<a, b, c>> <=> (Len(p) = 3 /\ p[1] = a /\ p[2] = b /\ p[3] = c)
  OBVIOUS
<1> QED
  BY <1>1, <1>2

\* The paths without an id, spelled out.
LEMMA ExactPaths ==
  ASSUME NEW p \in Seq(STRING)
  PROVE  /\ p = <<"api", "auth">> <=> Shape(1, p)
         /\ p = <<"api", "auth", "logout">> <=> Shape(2, p)
         /\ p = <<"api", "visitors", "session">> <=> Shape(3, p)
         /\ p = <<"api", "presence", "heartbeat">> <=> Shape(4, p)
         /\ p = <<"api", "presence", "exit">> <=> Shape(5, p)
         /\ p = <<"api", "presence">> <=> Shape(6, p)
         /\ p = <<"api", "statistics", "views">> <=> Shape(7, p)
         /\ p = <<"api", "scenes">> <=> Shape(8, p)
<1>1. /\ p = <<"api", "auth">> <=> Two(p, "auth")
      /\ p = <<"api", "presence">> <=> Two(p, "presence")
      /\ p = <<"api", "scenes">> <=> Two(p, "scenes")
  BY Spelled DEF Two
<1>2. /\ p = <<"api", "auth", "logout">> <=> Three(p, "auth", "logout")
      /\ p = <<"api", "visitors", "session">> <=> Three(p, "visitors", "session")
      /\ p = <<"api", "presence", "heartbeat">> <=> Three(p, "presence", "heartbeat")
      /\ p = <<"api", "presence", "exit">> <=> Three(p, "presence", "exit")
      /\ p = <<"api", "statistics", "views">> <=> Three(p, "statistics", "views")
  BY Spelled DEF Three
<1> QED
  BY <1>1, <1>2, Shapes

\* The first two segments.
LEMMA FirstTwo ==
  ASSUME NEW p \in Seq(STRING), Len(p) >= 3, NEW b
  PROVE  SubSeq(p, 1, 2) = <<"api", b>> <=> (p[1] = "api" /\ p[2] = b)
<1>1. Len(p) \in Nat
  OBVIOUS
<1> DEFINE t == SubSeq(p, 1, 2)
<1>2. t \in Seq(STRING) /\ Len(t) = 2 /\ t[1] = p[1] /\ t[2] = p[2]
  BY <1>1
<1> HIDE DEF t
<1>3. t = <<"api", b>> <=> (Len(t) = 2 /\ t[1] = "api" /\ t[2] = b)
  BY <1>2, Spelled
<1> QED
  BY <1>2, <1>3 DEF t

\* A segment of a pattern and one of a path.
Same(x, y) == x = y \/ (x = Param /\ y # "")

\* The match of a pattern of two, three or four segments.
LEMMA MatchFacts ==
  ASSUME NEW p \in Seq(STRING), NEW r
  PROVE  /\ Len(r.pattern) = 2 =>
              (pathMatches(r, p) <=> /\ Len(p) = 2 /\ Same(r.pattern[1], p[1])
                                     /\ Same(r.pattern[2], p[2]))
         /\ Len(r.pattern) = 3 =>
              (pathMatches(r, p) <=> /\ Len(p) = 3 /\ Same(r.pattern[1], p[1])
                                     /\ Same(r.pattern[2], p[2]) /\ Same(r.pattern[3], p[3]))
         /\ Len(r.pattern) = 4 =>
              (pathMatches(r, p) <=> /\ Len(p) = 4 /\ Same(r.pattern[1], p[1])
                                     /\ Same(r.pattern[2], p[2]) /\ Same(r.pattern[3], p[3])
                                     /\ Same(r.pattern[4], p[4]))
<1> DEFINE s == r.pattern
           M == Len(p) = Len(s) /\ \A i \in 1..Len(p) : Same(s[i], p[i])
<1>1. pathMatches(r, p) <=> M
  <2>1. DOMAIN p = 1..Len(p)
    OBVIOUS
  <2> QED
    BY <2>1 DEF pathMatches, Same
<1>2. Len(p) \in Nat
  OBVIOUS
<1>3. \A i : (i \in 1..2 <=> i = 1 \/ i = 2) /\ (i \in 1..3 <=> i = 1 \/ i = 2 \/ i = 3)
             /\ (i \in 1..4 <=> i = 1 \/ i = 2 \/ i = 3 \/ i = 4)
  OBVIOUS
<1>4. ASSUME Len(s) = 2 PROVE M <=> Len(p) = 2 /\ Same(s[1], p[1]) /\ Same(s[2], p[2])
  BY <1>3, <1>4
<1>5. ASSUME Len(s) = 3
      PROVE  M <=> Len(p) = 3 /\ Same(s[1], p[1]) /\ Same(s[2], p[2]) /\ Same(s[3], p[3])
  BY <1>3, <1>5
<1>6. ASSUME Len(s) = 4
      PROVE  M <=> /\ Len(p) = 4 /\ Same(s[1], p[1]) /\ Same(s[2], p[2]) /\ Same(s[3], p[3])
                   /\ Same(s[4], p[4])
  BY <1>3, <1>6
<1> QED
  BY <1>1, <1>4, <1>5, <1>6

LEMMA MatchTwo ==
  ASSUME NEW p \in Seq(STRING), NEW r, NEW b, r.pattern = <<"api", b>>, b # ":id"
  PROVE  pathMatches(r, p) <=> Two(p, b)
<1>1. Len(r.pattern) = 2 /\ r.pattern[1] = "api" /\ r.pattern[2] = b
  OBVIOUS
<1>2. pathMatches(r, p) <=> Len(p) = 2 /\ Same("api", p[1]) /\ Same(b, p[2])
  BY <1>1, MatchFacts
<1> QED
  BY <1>2 DEF Same, Two, Param

LEMMA MatchThree ==
  ASSUME NEW p \in Seq(STRING), NEW r, NEW b, NEW c,
         r.pattern = <<"api", b, c>>, b # ":id"
  PROVE  /\ c # ":id" => (pathMatches(r, p) <=> Three(p, b, c))
         /\ c = ":id" => (pathMatches(r, p) <=> (Item(p, b) /\ p[3] # ""))
<1>1. Len(r.pattern) = 3 /\ r.pattern[1] = "api" /\ r.pattern[2] = b /\ r.pattern[3] = c
  OBVIOUS
<1>2. pathMatches(r, p) <=> Len(p) = 3 /\ Same("api", p[1]) /\ Same(b, p[2]) /\ Same(c, p[3])
  BY <1>1, MatchFacts
<1>3. (Same("api", p[1]) <=> p[1] = "api") /\ (Same(b, p[2]) <=> p[2] = b)
  BY DEF Same, Param
<1>4. CASE c # ":id"
  BY <1>2, <1>3, <1>4 DEF Same, Three, Param
<1>5. CASE c = ":id"
  <2>1. Same(c, p[3]) <=> p[3] # ""
    BY <1>5 DEF Same, Param
  <2> QED
    BY <1>2, <1>3, <1>5, <2>1 DEF Item
<1> QED
  BY <1>4, <1>5

LEMMA MatchFour ==
  ASSUME NEW p \in Seq(STRING), NEW r, NEW d,
         r.pattern = <<"api", "artworks", ":id", d>>, d # ":id"
  PROVE  pathMatches(r, p) <=> Of(p, d)
<1>1. /\ Len(r.pattern) = 4 /\ r.pattern[1] = "api" /\ r.pattern[2] = "artworks"
      /\ r.pattern[3] = ":id" /\ r.pattern[4] = d
  OBVIOUS
<1>2. pathMatches(r, p) <=> /\ Len(p) = 4 /\ Same("api", p[1]) /\ Same("artworks", p[2])
                            /\ Same(":id", p[3]) /\ Same(d, p[4])
  BY <1>1, MatchFacts
<1>3. /\ (Same("api", p[1]) <=> p[1] = "api") /\ (Same("artworks", p[2]) <=> p[2] = "artworks")
      /\ (Same(":id", p[3]) <=> p[3] # "") /\ (Same(d, p[4]) <=> p[4] = d)
  BY DEF Same, Param
<1> QED
  BY <1>2, <1>3 DEF Of

\* Which paths a route matches.
LEMMA Matches ==
  ASSUME NEW p \in Seq(STRING), NEW i \in 1..14
  PROVE  pathMatches(Routes[i], p) <=> Shape(i, p)
<1>1. CASE i = 1
  <2>1. Routes[i].pattern = <<"api", "auth">>
    BY <1>1, RouteList DEF Route, Param
  <2>2. Shape(i, p) <=> Two(p, "auth")
    BY <1>1 DEF Shape
  <2> QED
    BY <2>1, <2>2, MatchTwo
<1>2. CASE i = 2
  <2>1. Routes[i].pattern = <<"api", "auth", "logout">>
    BY <1>2, RouteList DEF Route, Param
  <2>2. Shape(i, p) <=> Three(p, "auth", "logout")
    BY <1>2 DEF Shape
  <2> QED
    BY <2>1, <2>2, MatchThree
<1>3. CASE i = 3
  <2>1. Routes[i].pattern = <<"api", "visitors", "session">>
    BY <1>3, RouteList DEF Route, Param
  <2>2. Shape(i, p) <=> Three(p, "visitors", "session")
    BY <1>3 DEF Shape
  <2> QED
    BY <2>1, <2>2, MatchThree
<1>4. CASE i = 4
  <2>1. Routes[i].pattern = <<"api", "presence", "heartbeat">>
    BY <1>4, RouteList DEF Route, Param
  <2>2. Shape(i, p) <=> Three(p, "presence", "heartbeat")
    BY <1>4 DEF Shape
  <2> QED
    BY <2>1, <2>2, MatchThree
<1>5. CASE i = 5
  <2>1. Routes[i].pattern = <<"api", "presence", "exit">>
    BY <1>5, RouteList DEF Route, Param
  <2>2. Shape(i, p) <=> Three(p, "presence", "exit")
    BY <1>5 DEF Shape
  <2> QED
    BY <2>1, <2>2, MatchThree
<1>6. CASE i = 6
  <2>1. Routes[i].pattern = <<"api", "presence">>
    BY <1>6, RouteList DEF Route, Param
  <2>2. Shape(i, p) <=> Two(p, "presence")
    BY <1>6 DEF Shape
  <2> QED
    BY <2>1, <2>2, MatchTwo
<1>7. CASE i = 7
  <2>1. Routes[i].pattern = <<"api", "statistics", "views">>
    BY <1>7, RouteList DEF Route, Param
  <2>2. Shape(i, p) <=> Three(p, "statistics", "views")
    BY <1>7 DEF Shape
  <2> QED
    BY <2>1, <2>2, MatchThree
<1>8. CASE i = 8
  <2>1. Routes[i].pattern = <<"api", "scenes">>
    BY <1>8, RouteList DEF Route, Param
  <2>2. Shape(i, p) <=> Two(p, "scenes")
    BY <1>8 DEF Shape
  <2> QED
    BY <2>1, <2>2, MatchTwo
<1>9. CASE i = 9
  <2>1. Routes[i].pattern = <<"api", "scenes", ":id">>
    BY <1>9, RouteList DEF Route, Param
  <2>2. Shape(i, p) <=> (Item(p, "scenes") /\ p[3] # "")
    BY <1>9 DEF Shape
  <2> QED
    BY <2>1, <2>2, MatchThree
<1>10. CASE i = 10
  <2>1. Routes[i].pattern = <<"api", "artworks", ":id">>
    BY <1>10, RouteList DEF Route, Param
  <2>2. Shape(i, p) <=> (Item(p, "artworks") /\ p[3] # "")
    BY <1>10 DEF Shape
  <2> QED
    BY <2>1, <2>2, MatchThree
<1>11. CASE i = 11
  <2>1. Routes[i].pattern = <<"api", "artworks", ":id", "likes">>
    BY <1>11, RouteList DEF Route, Param
  <2>2. Shape(i, p) <=> Of(p, "likes")
    BY <1>11 DEF Shape
  <2> QED
    BY <2>1, <2>2, MatchFour
<1>12. CASE i = 12
  <2>1. Routes[i].pattern = <<"api", "artworks", ":id", "likes">>
    BY <1>12, RouteList DEF Route, Param
  <2>2. Shape(i, p) <=> Of(p, "likes")
    BY <1>12 DEF Shape
  <2> QED
    BY <2>1, <2>2, MatchFour
<1>13. CASE i = 13
  <2>1. Routes[i].pattern = <<"api", "artworks", ":id", "comments">>
    BY <1>13, RouteList DEF Route, Param
  <2>2. Shape(i, p) <=> Of(p, "comments")
    BY <1>13 DEF Shape
  <2> QED
    BY <2>1, <2>2, MatchFour
<1>14. CASE i = 14
  <2>1. Routes[i].pattern = <<"api", "artworks", ":id", "comments">>
    BY <1>14, RouteList DEF Route, Param
  <2>2. Shape(i, p) <=> Of(p, "comments")
    BY <1>14 DEF Shape
  <2> QED
    BY <2>1, <2>2, MatchFour
<1>15. \/ i = 1 \/ i = 2 \/ i = 3 \/ i = 4 \/ i = 5 \/ i = 6 \/ i = 7
       \/ i = 8 \/ i = 9 \/ i = 10 \/ i = 11 \/ i = 12 \/ i = 13 \/ i = 14
  OBVIOUS
<1> QED
  BY <1>1, <1>2, <1>3, <1>4, <1>5, <1>6, <1>7, <1>8, <1>9, <1>10, <1>11, <1>12, <1>13, <1>14,
     <1>15

\* The routes that are looked up by their path and those whose pattern is searched.
LEMMA PatternKinds ==
  ASSUME NEW p \in Seq(STRING), NEW i \in 1..14
  PROVE  /\ isDynamicPattern(Routes[i].pattern) <=> i > 8
         /\ i <= 8 => (Routes[i].pattern = p <=> Shape(i, p))
<1> DEFINE s == Routes[i].pattern
<1>1. /\ i = 1 => s = <<"api", "auth">>
      /\ i = 2 => s = <<"api", "auth", "logout">>
      /\ i = 3 => s = <<"api", "visitors", "session">>
      /\ i = 4 => s = <<"api", "presence", "heartbeat">>
      /\ i = 5 => s = <<"api", "presence", "exit">>
      /\ i = 6 => s = <<"api", "presence">>
      /\ i = 7 => s = <<"api", "statistics", "views">>
      /\ i = 8 => s = <<"api", "scenes">>
      /\ i = 9 => s = <<"api", "scenes", ":id">>
      /\ i = 10 => s = <<"api", "artworks", ":id">>
      /\ i \in {11, 12} => s = <<"api", "artworks", ":id", "likes">>
      /\ i \in {13, 14} => s = <<"api", "artworks", ":id", "comments">>
  BY RouteList DEF Route, Param
<1> HIDE DEF s
<1>2. ASSUME i <= 8 PROVE s = p <=> Shape(i, p)
  <2>1. CASE i = 1
    BY <1>1, <2>1, ExactPaths
  <2>2. CASE i = 2
    BY <1>1, <2>2, ExactPaths
  <2>3. CASE i = 3
    BY <1>1, <2>3, ExactPaths
  <2>4. CASE i = 4
    BY <1>1, <2>4, ExactPaths
  <2>5. CASE i = 5
    BY <1>1, <2>5, ExactPaths
  <2>6. CASE i = 6
    BY <1>1, <2>6, ExactPaths
  <2>7. CASE i = 7
    BY <1>1, <2>7, ExactPaths
  <2>8. CASE i = 8
    BY <1>1, <2>8, ExactPaths
  <2> QED
    BY <1>2, <2>1, <2>2, <2>3, <2>4, <2>5, <2>6, <2>7, <2>8
<1>3. ASSUME i <= 8 PROVE ":id" \notin ToSet(s)
  <2>1. CASE i = 1 \/ i = 6 \/ i = 8
    BY <1>1, <2>1 DEF ToSet
  <2>2. CASE i = 2 \/ i = 3 \/ i = 4
    BY <1>1, <2>2 DEF ToSet
  <2>3. CASE i = 5 \/ i = 7
    BY <1>1, <2>3 DEF ToSet
  <2> QED
    BY <1>3, <2>1, <2>2, <2>3
<1>4. ASSUME i > 8 PROVE ":id" \in ToSet(s)
  <2>1. 3 \in DOMAIN s /\ s[3] = ":id"
    BY <1>1, <1>4
  <2> QED
    BY <2>1 DEF ToSet
<1> QED
  BY <1>2, <1>3, <1>4 DEF isDynamicPattern, Param, s

\* No two routes match a path, but for the ones that differ in the method only.
LEMMA ShapesDiffer ==
  ASSUME NEW p \in Seq(STRING), NEW i \in 1..14, NEW j \in 1..14, Shape(i, p), Shape(j, p)
  PROVE  i = j \/ (i \in {11, 12} /\ j \in {11, 12}) \/ (i \in {13, 14} /\ j \in {13, 14})
<1> DEFINE n == Len(p)
           b == p[2]
           c == p[3]
           d == p[4]
<1>1. ASSUME NEW k \in 1..14, Shape(k, p)
      PROVE  /\ k = 1 => n = 2 /\ b = "auth"
             /\ k = 2 => n = 3 /\ b = "auth"
             /\ k = 3 => n = 3 /\ b = "visitors"
             /\ k = 4 => n = 3 /\ b = "presence" /\ c = "heartbeat"
             /\ k = 5 => n = 3 /\ b = "presence" /\ c = "exit"
             /\ k = 6 => n = 2 /\ b = "presence"
             /\ k = 7 => n = 3 /\ b = "statistics"
             /\ k = 8 => n = 2 /\ b = "scenes"
             /\ k = 9 => n = 3 /\ b = "scenes"
             /\ k = 10 => n = 3 /\ b = "artworks"
             /\ k = 11 => n = 4 /\ d = "likes"
             /\ k = 12 => n = 4 /\ d = "likes"
             /\ k = 13 => n = 4 /\ d = "comments"
             /\ k = 14 => n = 4 /\ d = "comments"
  BY <1>1 DEF Shape, Two, Three, Item, Of
<1> HIDE DEF n, b, c, d
<1>2. \A k \in 1..14 : \/ k = 1 \/ k = 2 \/ k = 3 \/ k = 4 \/ k = 5 \/ k = 6 \/ k = 7
                       \/ k = 8 \/ k = 9 \/ k = 10 \/ k = 11 \/ k = 12 \/ k = 13 \/ k = 14
  OBVIOUS
<1>3. CASE i = 1
  BY <1>1, <1>2, <1>3
<1>4. CASE i = 2
  BY <1>1, <1>2, <1>4
<1>5. CASE i = 3
  BY <1>1, <1>2, <1>5
<1>6. CASE i = 4
  BY <1>1, <1>2, <1>6
<1>7. CASE i = 5
  BY <1>1, <1>2, <1>7
<1>8. CASE i = 6
  BY <1>1, <1>2, <1>8
<1>9. CASE i = 7
  BY <1>1, <1>2, <1>9
<1>10. CASE i = 8
  BY <1>1, <1>2, <1>10
<1>11. CASE i = 9
  BY <1>1, <1>2, <1>11
<1>12. CASE i = 10
  BY <1>1, <1>2, <1>12
<1>13. CASE i = 11 \/ i = 12
  BY <1>1, <1>2, <1>13
<1>14. CASE i = 13 \/ i = 14
  BY <1>1, <1>2, <1>14
<1> QED
  BY <1>2, <1>3, <1>4, <1>5, <1>6, <1>7, <1>8, <1>9, <1>10, <1>11, <1>12, <1>13, <1>14

\* The paths of artworks, as AuthMiddleware recognises them.
LEMMA ArtworkPaths ==
  ASSUME NEW p \in Seq(STRING)
  PROVE  /\ artworkRoute(p, <<>>) <=> Item(p, "artworks")
         /\ \A d : artworkRoute(p, <<d>>) <=> Of(p, d)
<1>1. Len(p) \in Nat
  OBVIOUS
<1>2. Len(p) >= 3 => (SubSeq(p, 1, 2) = <<"api", "artworks">> <=> (p[1] = "api" /\ p[2] = "artworks"))
  BY FirstTwo
<1> DEFINE u == SubSeq(p, 4, Len(p))
<1>3. /\ u \in Seq(STRING)
      /\ Len(p) >= 3 => Len(u) = Len(p) - 3
      /\ Len(p) >= 4 => u[1] = p[4]
  BY <1>1
<1> HIDE DEF u
<1>4. u = <<>> <=> Len(u) = 0
  BY <1>3
<1>5. \A d : u = <<d>> <=> (Len(u) = 1 /\ u[1] = d)
  BY <1>3
<1>6. artworkRoute(p, <<>>) <=> Item(p, "artworks")
  <2>1. artworkRoute(p, <<>>) <=> /\ Len(p) >= 3 /\ p[1] = "api" /\ p[2] = "artworks"
                                  /\ p[3] # "" \/ Len(p) = 3
                                  /\ u = <<>>
    BY <1>2 DEF artworkRoute, u
  <2>2. Len(p) >= 3 => (u = <<>> <=> Len(p) = 3)
    <3>1. Len(p) >= 3 => (Len(u) = 0 <=> Len(p) = 3)
      BY <1>1, <1>3
    <3> QED
      BY <1>4, <3>1
  <2>3. Len(p) = 3 => Len(p) >= 3
    OBVIOUS
  <2> QED
    BY <2>1, <2>2, <2>3 DEF Item
<1>7. ASSUME NEW d PROVE artworkRoute(p, <<d>>) <=> Of(p, d)
  <2>1. artworkRoute(p, <<d>>) <=> /\ Len(p) >= 3 /\ p[1] = "api" /\ p[2] = "artworks"
                                   /\ p[3] # "" \/ Len(p) = 3
                                   /\ u = <<d>>
    BY <1>2 DEF artworkRoute, u
  <2>2. Len(p) >= 3 => (u = <<d>> <=> (Len(p) = 4 /\ p[4] = d))
    <3>1. ASSUME Len(p) >= 3 PROVE Len(u) = 1 <=> Len(p) = 4
      <4>1. Len(u) = Len(p) - 3
        BY <1>3, <3>1
      <4> QED
        BY <1>1, <4>1
    <3>2. Len(p) = 4 => u[1] = p[4]
      BY <1>3
    <3> QED
      BY <1>5, <3>1, <3>2
  <2>3. (Len(p) = 4 => Len(p) >= 3) /\ (Len(p) = 4 => Len(p) # 3)
    <3>1. \A n \in Nat : (n = 4 => n >= 3) /\ (n = 4 => n # 3)
      OBVIOUS
    <3> QED
      BY <1>1, <3>1
  <2> QED
    BY <2>1, <2>2, <2>3 DEF Of
<1> QED
  BY <1>6, <1>7

\* What AuthMiddleware lets pass, in terms of the routes.
LEMMA AuthPasses ==
  ASSUME NEW q, q.path \in Seq(STRING)
  PROVE  authBefore(q) = Continue <=>
           \/ ~(Len(q.path) >= 2 /\ q.path[1] = "api")
           \/ Shape(1, q.path) \/ Shape(3, q.path)
           \/ q.method = "GET" /\ \/ Shape(6, q.path) \/ Shape(7, q.path) \/ Shape(8, q.path)
                                  \/ Item(q.path, "scenes") \/ Item(q.path, "artworks")
                                  \/ Shape(13, q.path)
           \/ (Shape(4, q.path) \/ Shape(5, q.path)) /\ q.visitor
           \/ /\ \/ q.method = "POST" /\ (Shape(2, q.path) \/ Shape(11, q.path) \/ Shape(14, q.path))
                 \/ q.method = "DELETE" /\ Shape(12, q.path)
              /\ q.bearer
<1> DEFINE p == q.path
<1>0. p \in Seq(STRING)
  OBVIOUS
<1> HIDE DEF p
<1>2. /\ p = <<"api", "auth">> <=> Shape(1, p)
      /\ p = <<"api", "auth", "logout">> <=> Shape(2, p)
      /\ p = <<"api", "visitors", "session">> <=> Shape(3, p)
      /\ p = <<"api", "presence", "heartbeat">> <=> Shape(4, p)
      /\ p = <<"api", "presence", "exit">> <=> Shape(5, p)
      /\ p = <<"api", "presence">> <=> Shape(6, p)
      /\ p = <<"api", "statistics", "views">> <=> Shape(7, p)
      /\ p = <<"api", "scenes">> <=> Shape(8, p)
  BY <1>0, ExactPaths
<1>3. /\ artworkRoute(p, <<>>) <=> Item(p, "artworks")
      /\ artworkRoute(p, <<"likes">>) <=> Shape(11, p)
      /\ artworkRoute(p, <<"likes">>) <=> Shape(12, p)
      /\ artworkRoute(p, <<"comments">>) <=> Shape(13, p)
      /\ artworkRoute(p, <<"comments">>) <=> Shape(14, p)
  BY <1>0, ArtworkPaths, Shapes
<1>4. Len(p) = 3 /\ SubSeq(p, 1, 2) = <<"api", "scenes">> <=> Item(p, "scenes")
  <2>1. Len(p) = 3 => Len(p) >= 3
    OBVIOUS
  <2> QED
    BY <1>0, <2>1, FirstTwo DEF Item
<1>5. isPublicRequest(q) <=>
        \/ ~(Len(p) >= 2 /\ p[1] = "api")
        \/ Shape(1, p) \/ Shape(3, p)
        \/ q.method = "GET" /\ \/ Shape(6, p) \/ Shape(7, p) \/ Shape(8, p)
                               \/ Item(p, "scenes") \/ Item(p, "artworks") \/ Shape(13, p)
  BY <1>2, <1>3, <1>4 DEF isPublicRequest, p
<1>6. authBefore(q) = Continue <=>
        \/ isPublicRequest(q)
        \/ (Shape(4, p) \/ Shape(5, p)) /\ q.visitor
        \/ /\ \/ q.method = "POST" /\ (Shape(2, p) \/ Shape(11, p) \/ Shape(14, p))
              \/ q.method = "DELETE" /\ Shape(12, p)
           /\ q.bearer
  <2>1. q.path \in {<<"api", "presence", "heartbeat">>, <<"api", "presence", "exit">>}
          <=> (Shape(4, p) \/ Shape(5, p))
    BY <1>2 DEF p
  <2>2. (\/ /\ q.method = "POST"
            /\ \/ q.path = <<"api", "auth", "logout">>
               \/ artworkRoute(q.path, <<"likes">>) \/ artworkRoute(q.path, <<"comments">>)
         \/ q.method = "DELETE" /\ artworkRoute(q.path, <<"likes">>))
        <=> (\/ q.method = "POST" /\ (Shape(2, p) \/ Shape(11, p) \/ Shape(14, p))
             \/ q.method = "DELETE" /\ Shape(12, p))
    BY <1>2, <1>3 DEF p
  <2> QED
    BY <2>1, <2>2 DEF authBefore, Continue
<1> QED
  BY <1>5, <1>6 DEF p

\* A request that a route fits is let pass exactly if the token is there that the
\* handler of the route reads.
LEMMA AuthEntitles ==
  ASSUME NEW q \in Targets, NEW i \in 1..14, Fits(Routes[i], q)
  PROVE  authBefore(q) = Continue <=> Entitled(Routes[i], q)
<1>1. q.path \in Seq(STRING) /\ q.bearer \in BOOLEAN /\ q.visitor \in BOOLEAN
  BY TargetsAssumption
<1> DEFINE p == q.path
<1>2. q.method = MethodOf(i) /\ Shape(i, p)
  BY <1>1, RouteFields, Matches DEF Fits
<1>3. Entitled(Routes[i], q) <=> (ReadsOf(i) = "user" => q.bearer) /\ (ReadsOf(i) = "visitor" => q.visitor)
  BY RouteFields DEF Entitled
<1>4. \A j \in 1..14 : Shape(j, p) => i = j \/ (i \in {11, 12} /\ j \in {11, 12})
                                            \/ (i \in {13, 14} /\ j \in {13, 14})
  BY <1>1, <1>2, ShapesDiffer
<1>5. /\ Len(p) >= 2 /\ p[1] = "api"
      /\ Item(p, "scenes") <=> i = 9
      /\ Item(p, "artworks") <=> i = 10
  <2> DEFINE n == Len(p)
             b == p[2]
  <2>1. /\ i = 1 => n = 2 /\ b = "auth"
        /\ i = 2 => n = 3 /\ b = "auth"
        /\ i = 3 => n = 3 /\ b = "visitors"
        /\ i = 4 => n = 3 /\ b = "presence"
        /\ i = 5 => n = 3 /\ b = "presence"
        /\ i = 6 => n = 2 /\ b = "presence"
        /\ i = 7 => n = 3 /\ b = "statistics"
        /\ i = 8 => n = 2 /\ b = "scenes"
        /\ i = 9 => n = 3 /\ b = "scenes"
        /\ i = 10 => n = 3 /\ b = "artworks"
        /\ i \in 11..14 => n = 4
        /\ p[1] = "api" /\ n \in Nat
    <3>1. /\ i = 1 => Two(p, "auth")
          /\ i = 2 => Three(p, "auth", "logout")
          /\ i = 3 => Three(p, "visitors", "session")
          /\ i = 4 => Three(p, "presence", "heartbeat")
          /\ i = 5 => Three(p, "presence", "exit")
          /\ i = 6 => Two(p, "presence")
          /\ i = 7 => Three(p, "statistics", "views")
          /\ i = 8 => Two(p, "scenes")
          /\ i = 9 => Item(p, "scenes")
          /\ i = 10 => Item(p, "artworks")
          /\ i \in {11, 12} => Of(p, "likes")
          /\ i \in {13, 14} => Of(p, "comments")
      BY <1>2 DEF Shape
    <3>2. i \in 11..14 => i \in {11, 12} \/ i \in {13, 14}
      OBVIOUS
    <3>3. i \in 1..10 \/ i \in 11..14
      OBVIOUS
    <3> QED
      <4>1. /\ \A x : Two(p, x) => n = 2 /\ b = x /\ p[1] = "api"
            /\ \A x, y : Three(p, x, y) => n = 3 /\ b = x /\ p[1] = "api"
            /\ \A x : Item(p, x) => n = 3 /\ b = x /\ p[1] = "api"
            /\ \A x : Of(p, x) => n = 4 /\ p[1] = "api"
        BY DEF Two, Three, Item, Of
      <4>2. n \in Nat
        BY <1>1
      <4> HIDE DEF p, n, b
      <4>3. i \in 1..10 => \/ i = 1 \/ i = 2 \/ i = 3 \/ i = 4 \/ i = 5 \/ i = 6 \/ i = 7 \/ i = 8
                           \/ i = 9 \/ i = 10
        OBVIOUS
      <4> QED
        BY <3>1, <3>2, <3>3, <4>1, <4>2, <4>3
  <2>2. \A x : Item(p, x) <=> (n = 3 /\ b = x)
    BY <2>1 DEF Item
  <2> HIDE DEF n, b
  <2>3. n >= 2
    BY <2>1
  <2>4. (n = 3 /\ b = "scenes") <=> i = 9
    BY <2>1
  <2>5. (n = 3 /\ b = "artworks") <=> i = 10
    BY <2>1
  <2> QED
    BY <2>1, <2>2, <2>3, <2>4, <2>5 DEF n
<1>6. authBefore(q) = Continue <=>
        \/ Shape(1, p) \/ Shape(3, p)
        \/ q.method = "GET" /\ (\/ Shape(6, p) \/ Shape(7, p) \/ Shape(8, p)
                                \/ i = 9 \/ i = 10 \/ Shape(13, p))
        \/ (Shape(4, p) \/ Shape(5, p)) /\ q.visitor
        \/ /\ \/ q.method = "POST" /\ (Shape(2, p) \/ Shape(11, p) \/ Shape(14, p))
              \/ q.method = "DELETE" /\ Shape(12, p)
           /\ q.bearer
  BY <1>1, <1>5, AuthPasses
<1> HIDE DEF p
<1>7. \A j \in 1..10 : Shape(j, p) <=> i = j
  BY <1>2, <1>4
<1>8. /\ Shape(11, p) <=> i \in {11, 12}
      /\ Shape(12, p) <=> i \in {11, 12}
      /\ Shape(13, p) <=> i \in {13, 14}
      /\ Shape(14, p) <=> i \in {13, 14}
  <2>1. /\ i \in {11, 12} => Of(p, "likes")
        /\ i \in {13, 14} => Of(p, "comments")
    BY <1>2 DEF Shape
  <2>2. /\ Of(p, "likes") <=> Shape(11, p)
        /\ Of(p, "likes") <=> Shape(12, p)
        /\ Of(p, "comments") <=> Shape(13, p)
        /\ Of(p, "comments") <=> Shape(14, p)
    BY DEF Shape
  <2>3. /\ Shape(11, p) => i \in {11, 12}
        /\ Shape(13, p) => i \in {13, 14}
    BY <1>4
  <2> QED
    BY <2>1, <2>2, <2>3
<1>9. authBefore(q) = Continue <=>
        \/ i = 1 \/ i = 3
        \/ q.method = "GET" /\ i \in {6, 7, 8, 9, 10, 13, 14}
        \/ i \in {4, 5} /\ q.visitor
        \/ /\ \/ q.method = "POST" /\ i \in {2, 11, 12, 13, 14}
              \/ q.method = "DELETE" /\ i \in {11, 12}
           /\ q.bearer
  <2>1. /\ Shape(1, p) <=> i = 1
        /\ Shape(2, p) <=> i = 2
        /\ Shape(3, p) <=> i = 3
        /\ Shape(4, p) <=> i = 4
        /\ Shape(5, p) <=> i = 5
        /\ Shape(6, p) <=> i = 6
        /\ Shape(7, p) <=> i = 7
        /\ Shape(8, p) <=> i = 8
    BY <1>7
  <2> QED
    BY <1>6, <1>8, <2>1
<1>10. CASE i \in {1, 3}
  BY <1>3, <1>9, <1>10 DEF ReadsOf
<1>11. CASE i \in {6, 7, 8, 9, 10, 13}
  BY <1>2, <1>3, <1>9, <1>11 DEF ReadsOf, MethodOf
<1>12. CASE i \in {4, 5}
  BY <1>2, <1>3, <1>9, <1>12 DEF ReadsOf, MethodOf
<1>13. CASE i \in {2, 11, 14}
  BY <1>2, <1>3, <1>9, <1>13 DEF ReadsOf, MethodOf
<1>14. CASE i = 12
  BY <1>2, <1>3, <1>9, <1>14 DEF ReadsOf, MethodOf
<1> QED
  BY <1>10, <1>11, <1>12, <1>13, <1>14

\* A route is registered once: no other with its method has its pattern.
LEMMA RouteAlone ==
  ASSUME NEW p \in Seq(STRING), NEW i \in 1..14, NEW j \in 1..14, Shape(i, p), Shape(j, p),
         Routes[i].method = Routes[j].method
  PROVE  i = j
<1>1. MethodOf(i) = MethodOf(j)
  BY RouteFields
<1>2. i = j \/ (i \in {11, 12} /\ j \in {11, 12}) \/ (i \in {13, 14} /\ j \in {13, 14})
  BY ShapesDiffer
<1>3. /\ MethodOf(11) = "POST" /\ MethodOf(12) = "DELETE"
      /\ MethodOf(13) = "GET" /\ MethodOf(14) = "POST"
  BY DEF MethodOf
<1> QED
  BY <1>1, <1>2, <1>3

\* The router considers the registered routes that match, no matter where it keeps them.
LEMMA CandidateFacts ==
  ASSUME NEW p \in Seq(STRING)
  PROVE  /\ Candidates(p) \subseteq 1..14
         /\ \A i \in 1..14 : i \in Candidates(p) <=> (i \in Registered /\ Shape(i, p))
<1>1. Registered \subseteq 1..14 /\ Table \subseteq Registered
  BY RouteList DEF Registered, Table
<1> DEFINE exact == {i \in exactRoutes : Routes[i].pattern = p}
           searched == {i \in dynamicRoutes : pathMatches(Routes[i], p)}
<1>2. Candidates(p) = IF exact # {} THEN exact ELSE searched
  BY DEF Candidates
<1>3. ASSUME NEW i \in Registered, Shape(i, p) PROVE i \in Table
  <2>1. SUFFICES ASSUME NEW j \in Registered, j < i, Routes[j].method = Routes[i].method,
                        Routes[j].pattern = Routes[i].pattern
                 PROVE  FALSE
    BY DEF Table, addRoute
  <2>2. i \in 1..14 /\ j \in 1..14
    BY <1>1
  <2>3. pathMatches(Routes[i], p) <=> pathMatches(Routes[j], p)
    BY <2>1 DEF pathMatches
  <2>4. Shape(j, p)
    BY <1>3, <2>2, <2>3, Matches
  <2>5. i = j
    BY <1>3, <2>1, <2>2, <2>4, RouteAlone
  <2> QED
    BY <2>1, <2>2, <2>5
<1>4. \A i : i \in exact <=> (i \in Table /\ i <= 8 /\ Shape(i, p))
  <2>1. ASSUME NEW i \in Table PROVE i \in exact <=> (i <= 8 /\ Shape(i, p))
    <3>1. i \in 1..14
      BY <1>1
    <3>2. /\ isDynamicPattern(Routes[i].pattern) <=> i > 8
          /\ i <= 8 => (Routes[i].pattern = p <=> Shape(i, p))
      BY <3>1, PatternKinds
    <3>3. i > 8 <=> ~(i <= 8)
      BY <3>1
    <3> QED
      BY <3>2, <3>3 DEF exactRoutes, dynamicRoutes
  <2> QED
    BY <2>1 DEF exactRoutes
<1>5. \A i : i \in searched <=> (i \in Table /\ i > 8 /\ Shape(i, p))
  <2>1. ASSUME NEW i \in Table PROVE i \in searched <=> (i > 8 /\ Shape(i, p))
    <3>1. i \in 1..14
      BY <1>1
    <3>2. /\ isDynamicPattern(Routes[i].pattern) <=> i > 8
          /\ pathMatches(Routes[i], p) <=> Shape(i, p)
      BY <3>1, PatternKinds, Matches
    <3> QED
      BY <3>2 DEF dynamicRoutes
  <2> QED
    BY <2>1 DEF dynamicRoutes
<1> HIDE DEF exact, searched
<1>6. Candidates(p) \subseteq Table
  BY <1>2, <1>4, <1>5
<1>7. ASSUME NEW i \in Candidates(p) PROVE i \in Registered /\ Shape(i, p)
  BY <1>1, <1>2, <1>4, <1>5, <1>7
<1>8. ASSUME NEW i \in Registered, Shape(i, p) PROVE i \in Candidates(p)
  <2>1. i \in Table /\ i \in 1..14
    BY <1>1, <1>3, <1>8
  <2>2. CASE i <= 8
    BY <1>2, <1>4, <1>8, <2>1, <2>2
  <2>3. CASE i > 8
    <3>1. ASSUME NEW j \in exact PROVE FALSE
      <4>1. j \in Table /\ j <= 8 /\ Shape(j, p)
        BY <1>4, <3>1
      <4>2. j \in 1..14
        BY <1>1, <4>1
      <4>3. i = j \/ (i \in {11, 12} /\ j \in {11, 12}) \/ (i \in {13, 14} /\ j \in {13, 14})
        BY <1>8, <2>1, <4>1, <4>2, ShapesDiffer
      <4> QED
        BY <2>1, <2>3, <4>1, <4>2, <4>3
    <3>2. exact = {}
      BY <3>1
    <3>3. i \in searched
      BY <1>5, <1>8, <2>1, <2>3
    <3> QED
      BY <1>2, <3>2, <3>3
  <2> QED
    BY <2>1, <2>2, <2>3
<1> QED
  BY <1>1, <1>6, <1>7, <1>8

\* The route of a request: the only registered one that fits, or none.
LEMMA RouteFacts ==
  ASSUME NEW q \in Targets
  PROVE  /\ \A i \in Registered : Fits(Routes[i], q) =>
              route(q).match = "route" /\ route(q).route = i
         /\ route(q).match = "route" => /\ route(q).route \in Registered
                                        /\ Fits(Routes[route(q).route], q)
         /\ route(q).match \in {"route", "not found", "not allowed"}
         /\ route(q).match = "not allowed" =>
              route(q).allowed = {Routes[i].method : i \in Candidates(q.path)}
<1> DEFINE p == q.path
           all == Candidates(p)
           fit == {i \in all : Routes[i].method = q.method}
<1>1. p \in Seq(STRING) /\ Registered \subseteq 1..14
  BY TargetsAssumption, RouteList DEF Registered
<1>2. all \subseteq 1..14 /\ \A i \in 1..14 : i \in all <=> (i \in Registered /\ Shape(i, p))
  BY <1>1, CandidateFacts
<1>3. \A i \in 1..14 : Fits(Routes[i], q) <=> (Shape(i, p) /\ Routes[i].method = q.method)
  BY <1>1, Matches DEF Fits
<1>4. \A i \in 1..14 : i \in fit <=> (i \in Registered /\ Fits(Routes[i], q))
  BY <1>2, <1>3
<1>5. ASSUME NEW i \in fit, NEW j \in fit PROVE i = j
  BY <1>1, <1>2, <1>5, RouteAlone
<1>6. fit \subseteq 1..14
  BY <1>2
<1>7. route(q) = IF fit # {} THEN [match |-> "route", route |-> Min(fit), allowed |-> {}]
                 ELSE [match |-> IF all = {} THEN "not found" ELSE "not allowed", route |-> 0,
                       allowed |-> {Routes[i].method : i \in all}]
  BY DEF route
<1> HIDE DEF fit, all
<1>8. ASSUME NEW i \in fit PROVE Min(fit) = i
  <2>1. fit = {i}
    BY <1>5, <1>8
  <2>2. i <= i
    BY <1>6, <1>8
  <2> QED
    BY <2>1, <2>2 DEF Min
<1>9. CASE fit = {}
  <2>1. /\ route(q).match \in {"not found", "not allowed"}
        /\ route(q).allowed = {Routes[i].method : i \in all}
    <3> DEFINE ms == {Routes[i].method : i \in all}
               o == IF all = {} THEN "not found" ELSE "not allowed"
    <3>1. route(q) = [match |-> o, route |-> 0, allowed |-> ms]
      BY <1>7, <1>9
    <3>2. o \in {"not found", "not allowed"}
      OBVIOUS
    <3> HIDE DEF ms, o
    <3>3. route(q).match = o /\ route(q).allowed = ms
      BY <3>1
    <3> QED
      BY <3>2, <3>3 DEF ms
  <2> QED
    BY <1>1, <1>4, <1>9, <2>1 DEF all
<1>10. CASE fit # {}
  <2>1. PICK i \in fit : TRUE
    BY <1>10
  <2>2. route(q).match = "route" /\ route(q).route = i
    BY <1>7, <1>8, <1>10, <2>1
  <2>3. i \in Registered /\ Fits(Routes[i], q)
    BY <1>4, <1>6, <2>1
  <2>4. \A j \in Registered : Fits(Routes[j], q) => j = i
    BY <1>1, <1>4, <1>5, <2>1
  <2> QED
    BY <2>2, <2>3, <2>4
<1> QED
  BY <1>9, <1>10

\* The chain of hooks passes a request if CorsMiddleware, where there is one, and
\* AuthMiddleware do.
LEMMA ChainPasses ==
  ASSUME NEW q
  PROVE  /\ Stops(q) \in Nat
         /\ Stops(q) = 0 => authBefore(q) = Continue
         /\ q.method # "OPTIONS" /\ authBefore(q) = Continue => Stops(q) = 0
         /\ Stops(q) # 0 => before(Chain[Stops(q)], q) \in {204, 401, 403}
<1> DEFINE T(h) == before(h, q) # Continue
           I == {i \in 1..Len(Chain) : T(Chain[i])}
<1>1. Stops(q) = IF I # {} THEN Min(I) ELSE 0
  BY DEF Stops, SelectInSeq
<1>2. /\ Len(Chain) \in 1..4 /\ Chain[Len(Chain)] = "auth"
      /\ \A i \in 1..Len(Chain) : Chain[i] \in {"cors", "requestId", "accessLog", "auth"}
  <2> DEFINE S == {"cors", "requestId", "accessLog", "auth"}
             c == IF Cors THEN <<"cors">> ELSE <<>>
             r == <<"requestId", "accessLog", "auth">>
  <2>1. Chain = c \o r
    BY DEF Chain
  <2>2. c \in Seq(S) /\ Len(c) \in 0..1
    <3>1. CASE Cors
      BY <3>1
    <3>2. CASE ~Cors
      BY <3>2
    <3> QED
      BY <3>1, <3>2
  <2>3. r \in Seq(S) /\ Len(r) = 3 /\ r[3] = "auth"
    OBVIOUS
  <2> HIDE DEF S, c, r
  <2>4. /\ Chain \in Seq(S) /\ Len(Chain) = Len(c) + 3
        /\ \A i \in 1..(Len(c) + 3) : Chain[i] = IF i <= Len(c) THEN c[i] ELSE r[i - Len(c)]
    BY <2>1, <2>2, <2>3, ConcatProperties
  <2>5. Len(c) + 3 \in 1..(Len(c) + 3) /\ ~(Len(c) + 3 <= Len(c)) /\ (Len(c) + 3) - Len(c) = 3
        /\ Len(c) + 3 \in 1..4
    BY <2>2
  <2>6. Chain[Len(Chain)] = "auth"
    BY <2>3, <2>4, <2>5
  <2>7. \A i \in 1..Len(Chain) : Chain[i] \in S
    BY <2>4, ElementOfSeq
  <2> QED
    BY <2>4, <2>5, <2>6, <2>7 DEF S
<1>3. /\ before("cors", q) = corsBefore(q) /\ before("auth", q) = authBefore(q)
      /\ before("requestId", q) = Continue /\ before("accessLog", q) = Continue
  BY DEF before
<1>4. corsBefore(q) \in {0, 204, 403} /\ authBefore(q) \in {0, 401} /\ Continue = 0
  <2>1. Continue = 0
    BY DEF Continue
  <2>2. corsBefore(q) \in {Continue, 204, 403}
    BY DEF corsBefore
  <2>3. authBefore(q) \in {Continue, 401}
    BY DEF authBefore
  <2> QED
    BY <2>1, <2>2, <2>3
<1>5. q.method # "OPTIONS" => corsBefore(q) = Continue
  BY DEF corsBefore
<1>6. \A i \in 1..Len(Chain) : Chain[i] \in {"cors", "requestId", "accessLog", "auth"}
  BY <1>2
<1>7. \A i \in 1..Len(Chain) : T(Chain[i]) => before(Chain[i], q) \in {204, 401, 403}
  BY <1>3, <1>4, <1>6
<1>8. Len(Chain) \in 1..4 /\ Chain[Len(Chain)] = "auth"
  BY <1>2
<1> HIDE DEF I
<1>9. I \subseteq 1..4
  BY <1>8 DEF I
<1>10. ASSUME I # {} PROVE Min(I) \in I
  <2>1. \E x \in I : \A y \in I : x <= y
    <3>1. CASE 1 \in I
      BY <1>9, <3>1
    <3>2. CASE 1 \notin I /\ 2 \in I
      BY <1>9, <3>2
    <3>3. CASE 1 \notin I /\ 2 \notin I /\ 3 \in I
      BY <1>9, <3>3
    <3>4. CASE 1 \notin I /\ 2 \notin I /\ 3 \notin I
      <4>1. \A x \in I : x = 4
        BY <1>9, <3>4
      <4> QED
        BY <1>10, <4>1
    <3> QED
      BY <3>1, <3>2, <3>3, <3>4
  <2> QED
    BY <2>1 DEF Min
<1>11. Stops(q) \in Nat /\ (Stops(q) # 0 => Stops(q) \in I) /\ (Stops(q) = 0 => I = {})
  <2>1. CASE I = {}
    BY <1>1, <2>1
  <2>2. CASE I # {}
    <3>1. Stops(q) = Min(I) /\ Min(I) \in I /\ Min(I) \in 1..4
      BY <1>1, <1>9, <1>10, <2>2
    <3> QED
      BY <3>1
  <2> QED
    BY <2>1, <2>2
<1>12. Stops(q) = 0 => authBefore(q) = Continue
  <2>1. authBefore(q) # Continue => Len(Chain) \in I
    BY <1>3, <1>8 DEF I
  <2> QED
    BY <1>11, <2>1
<1>13. q.method # "OPTIONS" /\ authBefore(q) = Continue => Stops(q) = 0
  <2>1. SUFFICES ASSUME q.method # "OPTIONS", authBefore(q) = Continue PROVE I = {}
    BY <1>1
  <2>2. \A i \in 1..Len(Chain) : before(Chain[i], q) = Continue
    BY <1>3, <1>5, <1>6, <2>1
  <2> QED
    BY <2>2 DEF I
<1>14. Stops(q) # 0 => before(Chain[Stops(q)], q) \in {204, 401, 403}
  BY <1>7, <1>11 DEF I
<1> QED
  BY <1>11, <1>12, <1>13, <1>14

\* What the dispatch of a request comes to when nothing throws.
Result(d, q) ==
    /\ Stops(q) # 0 => d.route = 0 /\ d.status # 405
    /\ Stops(q) = 0 /\ route(q).match = "route" => d.route = route(q).route /\ d.status = 200
    /\ Stops(q) = 0 /\ route(q).match = "not found" => d.route = 0 /\ d.status = 200
    /\ Stops(q) = 0 /\ route(q).match = "not allowed" => d.route = 0

LEMMA DispatchResult ==
  ASSUME NEW q, NEW d, d = dispatch(q, 0, FALSE)
  PROVE  Result(d, q)
<1> DEFINE e == [before |-> Len(Chain), route |-> 0, status |-> 200, async |-> FALSE]
           m == route(q)
           w == before(Chain[Stops(q)], q)
<1>1. d = IF Stops(q) > 0 THEN [e EXCEPT !.before = Stops(q), !.status = w]
          ELSE IF m.match = "not allowed" THEN [e EXCEPT !.status = 405]
          ELSE IF m.match = "not found" THEN [e EXCEPT !.async = TRUE]
          ELSE [e EXCEPT !.route = m.route, !.async = Routes[m.route].async]
  <2>1. ~(0 > 0)
    OBVIOUS
  <2>2. CASE Stops(q) > 0
    BY <2>1, <2>2 DEF dispatch, callHandler
  <2>3. CASE ~(Stops(q) > 0)
    BY <2>1, <2>3 DEF dispatch, callHandler
  <2> QED
    BY <2>2, <2>3
<1>2. Stops(q) \in Nat /\ (Stops(q) # 0 => w # 405)
  BY ChainPasses
<1>3. Stops(q) > 0 <=> Stops(q) # 0
  BY <1>2
<1> HIDE DEF m, w
<1>4. Stops(q) # 0 => d.route = 0 /\ d.status # 405
  <2>1. SUFFICES ASSUME Stops(q) # 0 PROVE d.route = 0 /\ d.status = w
    BY <1>2
  <2>2. d = [e EXCEPT !.before = Stops(q), !.status = w]
    BY <1>1, <1>3, <2>1
  <2> QED
    BY <2>2
<1>5. Stops(q) = 0 /\ m.match = "route" => d.route = m.route /\ d.status = 200
  BY <1>1, <1>3
<1>6. Stops(q) = 0 /\ m.match = "not found" => d.route = 0 /\ d.status = 200
  BY <1>1, <1>3
<1>7. Stops(q) = 0 /\ m.match = "not allowed" => d.route = 0
  BY <1>1, <1>3
<1> QED
  BY <1>4, <1>5, <1>6, <1>7 DEF m, Result

\* AuthMiddleware and Router agree on every request, whatever its path.
LEMMA AllGuarded ==
  ASSUME NEW q \in Targets
  PROVE  Guarded(q)
<1> DEFINE d == dispatch(q, 0, FALSE)
           m == route(q)
<1> HIDE DEF d
<1>1. /\ Stops(q) # 0 => d.route = 0 /\ d.status # 405
      /\ Stops(q) = 0 /\ m.match = "route" => d.route = m.route /\ d.status = 200
      /\ Stops(q) = 0 /\ m.match = "not found" => d.route = 0 /\ d.status = 200
      /\ Stops(q) = 0 /\ m.match = "not allowed" => d.route = 0
  <2>1. d = dispatch(q, 0, FALSE)
    BY DEF d
  <2>2. Result(d, q)
    BY <2>1, DispatchResult, Zenon
  <2> QED
    BY <2>2 DEF Result
<1>2. /\ \A i \in Registered : Fits(Routes[i], q) => m.match = "route" /\ m.route = i
      /\ m.match = "route" => m.route \in Registered /\ Fits(Routes[m.route], q)
      /\ m.match \in {"route", "not found", "not allowed"}
      /\ m.match = "not allowed" => m.allowed = {Routes[i].method : i \in Candidates(q.path)}
  BY RouteFacts
<1>3. Registered \subseteq 1..14 /\ q.path \in Seq(STRING)
  BY RouteList, TargetsAssumption DEF Registered
<1>4. /\ Stops(q) = 0 => authBefore(q) = Continue
      /\ q.method # "OPTIONS" /\ authBefore(q) = Continue => Stops(q) = 0
  BY ChainPasses
<1> HIDE DEF m
<1>5. d.route # 0 => Fits(Routes[d.route], q) /\ Entitled(Routes[d.route], q)
  <2>1. SUFFICES ASSUME d.route # 0 PROVE Fits(Routes[d.route], q) /\ Entitled(Routes[d.route], q)
    OBVIOUS
  <2>2. Stops(q) = 0 /\ m.match = "route" /\ d.route = m.route
    BY <1>1, <1>2, <2>1
  <2>3. d.route \in 1..14 /\ Fits(Routes[d.route], q)
    BY <1>2, <1>3, <2>2
  <2>4. authBefore(q) = Continue
    BY <1>4, <2>2
  <2> QED
    BY <2>3, <2>4, AuthEntitles
<1>6. ASSUME NEW i \in Registered, Fits(Routes[i], q), Entitled(Routes[i], q) PROVE d.route = i
  <2>1. i \in 1..14
    BY <1>3
  <2>2. authBefore(q) = Continue
    BY <1>6, <2>1, AuthEntitles
  <2>3. q.method # "OPTIONS"
    <3>1. q.method = MethodOf(i)
      BY <1>6, <2>1, RouteFields DEF Fits
    <3> QED
      BY <3>1 DEF MethodOf
  <2> QED
    <3>1. Stops(q) = 0
      BY <1>4, <2>2, <2>3
    <3>2. m.match = "route" /\ m.route = i
      BY <1>2, <1>6
    <3> QED
      BY <1>1, <3>1, <3>2
<1>7. ASSUME d.status = 405, NEW x \in Methods
      PROVE  x \in m.allowed <=> \E i \in Registered : Fits(Routes[i], [q EXCEPT !.method = x])
  <2>1. m.match = "not allowed"
    <3>1. d.status # 200
      BY <1>7
    <3>2. m.match \in {"route", "not found", "not allowed"}
      BY <1>2
    <3> QED
      BY <1>1, <1>7, <3>1, <3>2
  <2>2. x \in m.allowed <=> \E i \in Candidates(q.path) : Routes[i].method = x
    BY <1>2, <2>1
  <2>3. /\ Candidates(q.path) \subseteq 1..14
        /\ \A i \in 1..14 : i \in Candidates(q.path) <=> (i \in Registered /\ Shape(i, q.path))
    BY <1>3, CandidateFacts
  <2> DEFINE z == [q EXCEPT !.method = x]
  <2>4. z.method = x /\ z.path = q.path
    BY TargetsAssumption
  <2> HIDE DEF z
  <2>5. \A i \in 1..14 : Fits(Routes[i], z) <=> (Routes[i].method = x /\ Shape(i, q.path))
    BY <1>3, <2>4, Matches DEF Fits
  <2> QED
    BY <1>3, <2>2, <2>3, <2>5 DEF z
<1> QED
  BY <1>5, <1>6, <1>7 DEF Guarded, Agree, d, m

-----------------------------------------------------------------------------
(* The stream of requests.                                                   *)

Parts == {"start", "line", "head", "body"}
Piece == Nat \X Parts

\* The piece after p in the stream of the requests ks.
After(ks, p) ==
    CASE p[2] = "start" -> <<p[1], "line">>
      [] p[2] = "line" -> <<p[1], "head">>
      [] p[2] = "head" /\ ks[p[1]].body -> <<p[1], "body">>
      [] OTHER -> <<p[1] + 1, "start">>

\* What comes after the last request.
End(ks) == <<Len(ks) + 1, "start">>

\* The i-th piece of s, or the one that will come next.
At(ks, s, i) == IF i <= Len(s) THEN s[i] ELSE End(ks)

\* s is the rest of the stream of the requests ks, from the piece first on.
Runs(ks, first, s) ==
    /\ s \in Seq(Piece)
    /\ \A i \in 1..Len(s) : s[i][1] \in 1..Len(ks)
    /\ At(ks, s, 1) = first
    /\ \A i \in 1..Len(s) : At(ks, s, i + 1) = After(ks, s[i])

-----------------------------------------------------------------------------
(* The invariant.                                                            *)

Coming == inbuf \o net

\* The piece that the parser waits for.
Expected ==
    CASE state = "line" -> <<Len(dispatched) + 1, "start">>
      [] state = "headers" -> <<cur, "head">>
      [] state = "body" -> <<cur, "body">>
      [] OTHER -> <<cur + 1, "start">>

HttpTypes ==
    /\ kind \in Seq(AllKinds) /\ Len(kind) <= MaxRequests
    /\ inbuf \in Seq(Piece) /\ net \in Seq(Piece)
    /\ pc \in {"idle", "top", "parse", "spin", "dispatch"}
    /\ state \in {"line", "headers", "body", "complete"}
    /\ cur \in Nat
    /\ tcp \in {"connected", "disconnecting", "closed"}
    /\ working \in SUBSET Requests /\ completed \in SUBSET Requests
    /\ queue \in Seq(Requests) /\ responses \in Seq(Requests)
    /\ dispatched \in Seq(Requests)
    /\ hooks \in [Requests -> [before : Nat, after : Seq(Int)]]

\* The requests are dispatched one by one, each once; the parser is in the one
\* after them.  Behind a request that closes the connection nothing comes.
Parsing ==
    /\ tcp = "closed" => pc = "idle"
    /\ tcp # "closed" => Runs(kind, Expected, Coming)
    /\ Len(dispatched) <= Len(kind)
    /\ \A i \in 1..Len(dispatched) : dispatched[i] = i /\ kind[i].bad = "no"
    /\ \A i \in 1..(Len(kind) - 1) : ~kind[i].close
    /\ pc = "dispatch" => state = "complete"
    /\ state = "headers" => kind[cur].bad # "line"
    /\ state \in {"body", "complete"} => kind[cur].bad = "no"
    /\ state \in {"headers", "body"} => cur = Len(dispatched) + 1 /\ cur <= Len(kind)
    /\ state = "complete" =>
         \/ pc = "dispatch" /\ cur = Len(dispatched) + 1 /\ cur <= Len(kind)
         \/ /\ pc = "idle" /\ cur = Len(dispatched) /\ cur = Len(kind)
            /\ tcp # "connected" /\ cur # 0 /\ kind[cur].close

\* A response is for a request that was dispatched or for one that could not be
\* parsed, after which there is no other.
Responding ==
    \A i \in 1..Len(responses) :
        /\ responses[i] \in 1..Len(kind)
        /\ responses[i] \in 1..Len(dispatched) \/ kind[responses[i]].bad # "no"
        /\ tcp = "connected" => responses[i] \in 1..Len(dispatched)

\* The requests whose response is still to be sent from a functor of the loop.
Open == (working \ completed) \cup {queue[i] : i \in 1..Len(queue)}

\* A response that is to come is queued once, and neither it nor its hooks have been seen.
Asynchronous ==
    /\ working \cup completed \subseteq 1..Len(dispatched)
    /\ \A i \in 1..Len(queue) : queue[i] \in completed
    /\ \A i, j \in 1..Len(queue) : i # j => queue[i] # queue[j]
    /\ \A r \in Open : ~Answered(r) /\ hooks[r].after = <<>>

Pairing(n) == [i \in 1..n |-> n + 1 - i]

\* What is known of the hooks of a request.
Hooked ==
    \A r \in Requests :
        /\ r > Len(dispatched) => hooks[r].after = <<>>
        /\ hooks[r].after \in {<<>>, Pairing(hooks[r].before)}
        /\ r <= Len(dispatched) /\ Answered(r) => hooks[r].after = Pairing(hooks[r].before)

HttpInv == HttpTypes /\ Parsing /\ Responding /\ Asynchronous /\ Hooked

\* The client waits for the response to a request that is not answered at once.
OrderInv ==
    /\ ResponsesInOrder
    /\ \A i \in 1..(Len(kind) - 1) : kind[i] \in Eager \/ Answered(i)
    /\ \A r \in Open : kind[r] \notin Eager

-----------------------------------------------------------------------------
(* Facts about streams.                                                      *)

\* Two sequences of pieces, one after the other.
LEMMA JoinFacts ==
  ASSUME NEW s \in Seq(Piece), NEW p \in Seq(Piece)
  PROVE  /\ s \o p \in Seq(Piece) /\ Len(s \o p) = Len(s) + Len(p)
         /\ Len(s) \in Nat /\ Len(p) \in Nat
         /\ \A i \in 1..Len(s) : (s \o p)[i] = s[i]
         /\ \A i \in 1..Len(p) : (s \o p)[Len(s) + i] = p[i]
         /\ \A i \in 1..(Len(s) + Len(p)) :
              i \in 1..Len(s) \/ (i - Len(s) \in 1..Len(p) /\ (s \o p)[i] = p[i - Len(s)])
<1>1. s \o p \in Seq(Piece) /\ Len(s \o p) = Len(s) + Len(p)
  OBVIOUS
<1>2. Len(s) \in Nat /\ Len(p) \in Nat
  OBVIOUS
<1>3. \A i \in 1..Len(s) : (s \o p)[i] = s[i]
  OBVIOUS
<1>4. \A i \in 1..Len(p) : (s \o p)[Len(s) + i] = p[i]
  OBVIOUS
<1>5. \A i \in 1..(Len(s) + Len(p)) :
        i \in 1..Len(s) \/ (i - Len(s) \in 1..Len(p) /\ (s \o p)[i] = p[i - Len(s)])
  OBVIOUS
<1> QED
  BY <1>1, <1>2, <1>3, <1>4, <1>5

\* Joining sequences of pieces is associative.
LEMMA PiecesJoin ==
  ASSUME NEW s \in Seq(Piece), NEW t \in Seq(Piece), NEW u \in Seq(Piece)
  PROVE  (s \o t) \o u = s \o (t \o u)
BY ConcatAssociative

\* A stream that is to begin with the next request is empty.
LEMMA RunsOut ==
  ASSUME NEW ks \in Seq(AllKinds), NEW s, Runs(ks, End(ks), s)
  PROVE  s = <<>>
<1>1. s \in Seq(Piece) /\ Len(s) \in Nat /\ Len(ks) \in Nat
  BY DEF Runs
<1>2. SUFFICES ASSUME Len(s) # 0 PROVE FALSE
  BY <1>1
<1>3. 1 <= Len(s) /\ 1 \in 1..Len(s)
  BY <1>1, <1>2
<1>4. s[1] = End(ks)
  BY <1>3 DEF Runs, At
<1>5. s[1][1] \in 1..Len(ks)
  BY <1>3 DEF Runs
<1> QED
  BY <1>1, <1>4, <1>5 DEF End

\* The first piece is taken.
LEMMA RunsOn ==
  ASSUME NEW ks \in Seq(AllKinds), NEW first, NEW s, Runs(ks, first, s), s # <<>>
  PROVE  /\ s[1] = first /\ first[1] \in 1..Len(ks)
         /\ Runs(ks, After(ks, first), Tail(s))
<1> DEFINE t == Tail(s)
<1>1. s \in Seq(Piece) /\ Len(s) \in Nat /\ Len(s) # 0
  BY DEF Runs
<1>2. /\ t \in Seq(Piece) /\ Len(t) = Len(s) - 1
      /\ \A i \in 1..Len(t) : t[i] = s[i + 1] /\ i + 1 \in 1..Len(s)
  BY <1>1
<1>3. s[1] = first /\ 1 \in 1..Len(s)
  BY <1>1 DEF Runs, At
<1> HIDE DEF t
<1>4. \A i \in 1..Len(t) : t[i][1] \in 1..Len(ks)
  BY <1>2 DEF Runs
<1>5. \A i \in 1..Len(s) : At(ks, t, i) = At(ks, s, i + 1)
  BY <1>1, <1>2 DEF At
<1>6. At(ks, t, 1) = After(ks, first)
  BY <1>3, <1>5 DEF Runs
<1>7. \A i \in 1..Len(t) : At(ks, t, i + 1) = After(ks, t[i])
  <2>1. SUFFICES ASSUME NEW i \in 1..Len(t) PROVE At(ks, t, i + 1) = After(ks, t[i])
    OBVIOUS
  <2>2. i + 1 \in 1..Len(s) /\ t[i] = s[i + 1]
    BY <1>2
  <2>3. At(ks, s, (i + 1) + 1) = After(ks, s[i + 1])
    BY <2>2 DEF Runs
  <2> QED
    BY <1>5, <2>2, <2>3
<1> QED
  BY <1>2, <1>3, <1>4, <1>6, <1>7 DEF Runs, t

\* The pieces of a request.
LEMMA PieceFacts ==
  ASSUME NEW r \in Nat, NEW k \in AllKinds
  PROVE  /\ Pieces(r, k) \in Seq(Piece)
         /\ Len(Pieces(r, k)) = IF k.body THEN 4 ELSE 3
         /\ Pieces(r, k)[1] = <<r, "start">>
         /\ Pieces(r, k)[2] = <<r, "line">>
         /\ Pieces(r, k)[3] = <<r, "head">>
         /\ k.body => Pieces(r, k)[4] = <<r, "body">>
<1>1. <<r, "start">> \in Piece /\ <<r, "line">> \in Piece /\ <<r, "head">> \in Piece
      /\ <<r, "body">> \in Piece
  BY DEF Piece, Parts
<1>2. k.body \in BOOLEAN
  BY DEF AllKinds
<1> DEFINE a == << <<r, "start">>, <<r, "line">>, <<r, "head">> >>
           b == << <<r, "body">> >>
<1>3. a \in Seq(Piece) /\ Len(a) = 3
      /\ a[1] = <<r, "start">> /\ a[2] = <<r, "line">> /\ a[3] = <<r, "head">>
  BY <1>1
<1>4. b \in Seq(Piece) /\ Len(b) = 1 /\ b[1] = <<r, "body">>
  BY <1>1
<1>5. Pieces(r, k) = a \o (IF k.body THEN b ELSE <<>>)
  BY DEF Pieces
<1> HIDE DEF a, b
<1>6. CASE k.body
  <2>1. Pieces(r, k) = a \o b
    BY <1>5, <1>6
  <2> QED
    <3>1. /\ a \o b \in Seq(Piece) /\ Len(a \o b) = Len(a) + Len(b)
          /\ \A i \in 1..Len(a) : (a \o b)[i] = a[i]
          /\ \A i \in 1..Len(b) : (a \o b)[Len(a) + i] = b[i]
      BY <1>3, <1>4, JoinFacts
    <3>2. /\ Len(a \o b) = 4 /\ (a \o b)[1] = a[1] /\ (a \o b)[2] = a[2]
          /\ (a \o b)[3] = a[3] /\ (a \o b)[4] = b[1]
      BY <1>3, <1>4, <3>1
    <3> QED
      BY <1>3, <1>4, <1>6, <2>1, <3>1, <3>2
<1>7. CASE ~k.body
  <2>1. Pieces(r, k) = a
    BY <1>3, <1>5, <1>7, ConcatEmptySeq
  <2> QED
    BY <1>3, <1>7, <2>1
<1> QED
  BY <1>6, <1>7

\* A request is added at the end.
LEMMA RunsLonger ==
  ASSUME NEW ks \in Seq(AllKinds), NEW first, NEW s, NEW k \in AllKinds, Runs(ks, first, s)
  PROVE  Runs(Append(ks, k), first, s \o Pieces(Len(ks) + 1, k))
<1> DEFINE r == Len(ks) + 1
           p == Pieces(r, k)
           js == Append(ks, k)
           t == s \o p
           n == Len(s)
<1>1. /\ r \in Nat /\ n \in Nat /\ s \in Seq(Piece) /\ Len(ks) \in Nat
      /\ js \in Seq(AllKinds) /\ Len(js) = r /\ js[r] = k
      /\ \A i \in 1..Len(ks) : js[i] = ks[i]
  BY DEF Runs
<1>2. /\ p \in Seq(Piece)
      /\ Len(p) = IF k.body THEN 4 ELSE 3
      /\ p[1] = <<r, "start">> /\ p[2] = <<r, "line">> /\ p[3] = <<r, "head">>
      /\ k.body => p[4] = <<r, "body">>
  BY <1>1, PieceFacts
<1> HIDE DEF p, js, r
<1>3. /\ t \in Seq(Piece) /\ Len(t) = n + Len(p) /\ Len(p) \in Nat
      /\ \A i \in 1..n : t[i] = s[i]
      /\ \A i \in 1..Len(p) : t[n + i] = p[i]
      /\ \A i \in 1..Len(t) : i \in 1..n \/ (i - n \in 1..Len(p) /\ t[i] = p[i - n])
  BY <1>1, <1>2, JoinFacts
<1> HIDE DEF t
<1>4. \A i \in 1..Len(p) : p[i][1] = r
  BY <1>2
<1>5. \A i \in 1..Len(t) : t[i][1] \in 1..Len(js)
  <2>1. \A i \in 1..n : s[i][1] \in 1..Len(ks)
    BY DEF Runs
  <2>2. ASSUME NEW i \in 1..Len(t) PROVE t[i][1] \in 1..Len(js)
    <3>1. CASE i \in 1..n
      <4>1. t[i][1] \in 1..Len(ks) /\ Len(js) = Len(ks) + 1
        BY <1>1, <1>3, <2>1, <3>1 DEF r
      <4> QED
        BY <1>1, <4>1
    <3>2. CASE i - n \in 1..Len(p) /\ t[i] = p[i - n]
      <4>1. t[i][1] = r /\ r \in 1..r
        BY <1>1, <1>4, <3>2 DEF r
      <4> QED
        BY <1>1, <4>1
    <3> QED
      BY <1>3, <3>1, <3>2
  <2> QED
    BY <2>2
<1>6. \A i \in 1..(n + 1) : At(js, t, i) = At(ks, s, i)
  <2>1. SUFFICES ASSUME NEW i \in 1..(n + 1) PROVE At(js, t, i) = At(ks, s, i)
    OBVIOUS
  <2>2. CASE i \in 1..n
    BY <1>1, <1>3, <2>2 DEF At
  <2>3. CASE i = n + 1
    <3>1. At(ks, s, i) = <<r, "start">>
      BY <1>1, <2>3 DEF At, End, r
    <3>2. t[i] = p[1] /\ i <= Len(t)
      BY <1>1, <1>2, <1>3, <2>3
    <3> QED
      BY <1>2, <3>1, <3>2 DEF At
  <2> QED
    BY <1>1, <2>2, <2>3
<1>7. At(js, t, 1) = first
  <2>1. 1 \in 1..(n + 1)
    BY <1>1
  <2> QED
    BY <1>6, <2>1 DEF Runs
<1>8. \A i \in 1..n : After(js, s[i]) = After(ks, s[i])
  <2>1. \A i \in 1..n : js[s[i][1]] = ks[s[i][1]]
    BY <1>1 DEF Runs
  <2> QED
    BY <2>1 DEF After
<1>9. ASSUME NEW i \in 1..Len(t) PROVE At(js, t, i + 1) = After(js, t[i])
  <2>1. CASE i \in 1..n
    <3>1. i + 1 \in 1..(n + 1)
      BY <1>1, <2>1
    <3>2. At(js, t, i + 1) = After(ks, s[i])
      BY <1>6, <2>1, <3>1 DEF Runs
    <3> QED
      BY <1>3, <1>8, <2>1, <3>2
  <2>2. CASE i = n + 1
    <3>1. t[i] = <<r, "start">> /\ t[i + 1] = <<r, "line">> /\ i + 1 <= Len(t)
      BY <1>1, <1>2, <1>3, <2>2
    <3> QED
      BY <3>1 DEF At, After
  <2>3. CASE i = n + 2
    <3>1. t[i] = <<r, "line">> /\ t[i + 1] = <<r, "head">> /\ i + 1 <= Len(t)
      BY <1>1, <1>2, <1>3, <2>3
    <3> QED
      BY <3>1 DEF At, After
  <2>4. CASE i = n + 3 /\ k.body
    <3>1. t[i] = <<r, "head">> /\ t[i + 1] = <<r, "body">> /\ i + 1 <= Len(t)
      BY <1>1, <1>2, <1>3, <2>4
    <3> QED
      BY <1>1, <2>4, <3>1 DEF At, After
  <2>5. CASE i = n + 3 /\ ~k.body
    <3>1. t[i] = <<r, "head">> /\ ~(i + 1 <= Len(t))
      BY <1>1, <1>2, <1>3, <2>5
    <3> QED
      BY <1>1, <2>5, <3>1 DEF At, After, End
  <2>6. CASE i = n + 4 /\ k.body
    <3>1. t[i] = <<r, "body">> /\ ~(i + 1 <= Len(t))
      BY <1>1, <1>2, <1>3, <2>6
    <3> QED
      BY <1>1, <3>1 DEF At, After, End
  <2>7. i \in 1..n \/ i = n + 1 \/ i = n + 2 \/ i = n + 3 \/ (i = n + 4 /\ k.body)
    BY <1>1, <1>2, <1>3
  <2> QED
    BY <2>1, <2>2, <2>3, <2>4, <2>5, <2>6, <2>7
<1> QED
  BY <1>3, <1>5, <1>7, <1>9 DEF Runs, t, p, js, r

\* The number of hooks executed.  The first hook that stops the request is
\* chosen from at most four.
LEMMA HooksCounted ==
  ASSUME NEW q, NEW d \in Outcomes(q)
  PROVE  d.before \in Nat
<1>1. PICK thrown \in {0} \cup CanThrow(q), fails \in BOOLEAN : d = dispatch(q, thrown, fails)
  BY DEF Outcomes
<1>2. Len(Chain) \in Nat /\ Len(Chain) <= 4
  BY DEF Chain
<1>3. Stops(q) \in Nat
  BY ChainPasses
<1>4. thrown > 0 => thrown - 1 \in Nat
  BY <1>2, <1>3 DEF CanThrow
<1> DEFINE e == [before |-> Len(Chain), route |-> 0, status |-> 200, async |-> FALSE]
           m == route(q)
<1>5. \/ thrown > 0 /\ d = [e EXCEPT !.before = thrown - 1, !.status = 500]
      \/ d = [e EXCEPT !.before = Stops(q), !.status = before(Chain[Stops(q)], q)]
      \/ d = [e EXCEPT !.status = 405]
      \/ d = [e EXCEPT !.route = m.route, !.status = 500]
      \/ d = [e EXCEPT !.async = TRUE]
      \/ d = [e EXCEPT !.route = m.route, !.async = Routes[m.route].async]
  <2>1. CASE thrown > 0
    BY <1>1, <2>1 DEF dispatch, callHandler
  <2>2. CASE ~(thrown > 0) /\ Stops(q) > 0
    BY <1>1, <2>2 DEF dispatch, callHandler
  <2>3. CASE ~(thrown > 0) /\ ~(Stops(q) > 0)
    <3>1. d = IF m.match = "not allowed" THEN [e EXCEPT !.status = 405]
              ELSE IF fails THEN [e EXCEPT !.route = m.route, !.status = 500]
              ELSE IF m.match = "not found" THEN [e EXCEPT !.async = TRUE]
              ELSE [e EXCEPT !.route = m.route, !.async = Routes[m.route].async]
      BY <1>1, <2>3 DEF dispatch, callHandler
    <3> HIDE DEF m, e
    <3> QED
      BY <3>1
  <2> QED
    BY <2>1, <2>2, <2>3
<1> HIDE DEF m
<1>6. \/ d.before = thrown - 1 /\ thrown > 0
      \/ d.before = Stops(q)
      \/ d.before = Len(Chain)
  BY <1>5
<1> QED
  BY <1>2, <1>3, <1>4, <1>6

\* after() of n hooks.
LEMMA PairingFacts ==
  ASSUME NEW n \in Nat, NEW failing
  PROVE  /\ processAfter(n, failing) = Pairing(n)
         /\ Pairing(n) \in Seq(Int)
         /\ <<>> \o Pairing(n) = Pairing(n)
<1>1. Pairing(n) \in Seq(Int)
  BY DEF Pairing
<1> QED
  BY <1>1, ConcatEmptySeq DEF processAfter, Pairing

\* The pieces read come before those on their way.
LEMMA TakeOne ==
  ASSUME NEW s \in Seq(Piece), NEW t \in Seq(Piece), s # <<>>
  PROVE  /\ Tail(s) \in Seq(Piece) /\ Len(Tail(s)) = Len(s) - 1
         /\ s \o t # <<>> /\ (s \o t)[1] = s[1]
         /\ Tail(s) \o t = Tail(s \o t)
<1>1. /\ Len(s) \in Nat /\ Len(s) # 0 /\ Len(t) \in Nat
      /\ Tail(s) \in Seq(Piece) /\ Len(Tail(s)) = Len(s) - 1
      /\ \A i \in 1..(Len(s) - 1) : Tail(s)[i] = s[i + 1]
  OBVIOUS
<1>2. /\ s \o t \in Seq(Piece) /\ Len(s \o t) = Len(s) + Len(t)
      /\ \A i \in 1..Len(s) : (s \o t)[i] = s[i]
      /\ \A i \in 1..(Len(s) + Len(t)) :
           i \in 1..Len(s) \/ (i - Len(s) \in 1..Len(t) /\ (s \o t)[i] = t[i - Len(s)])
  BY JoinFacts
<1>3. s \o t # <<>> /\ (s \o t)[1] = s[1]
  <2>1. Len(s \o t) # 0 /\ 1 \in 1..Len(s)
    BY <1>1, <1>2
  <2> QED
    BY <1>2, <2>1
<1> DEFINE u == s \o t
           v == Tail(s) \o t
<1>4. /\ Tail(u) \in Seq(Piece) /\ Len(Tail(u)) = Len(u) - 1
      /\ \A i \in 1..(Len(u) - 1) : Tail(u)[i] = u[i + 1]
  <2>1. u \in Seq(Piece) /\ u # <<>>
    BY <1>2, <1>3
  <2> HIDE DEF u
  <2> QED
    BY <2>1
<1>5. /\ v \in Seq(Piece) /\ Len(v) = (Len(s) - 1) + Len(t)
      /\ \A i \in 1..(Len(s) - 1) : v[i] = Tail(s)[i]
      /\ \A i \in 1..((Len(s) - 1) + Len(t)) :
           i \in 1..(Len(s) - 1)
             \/ (i - (Len(s) - 1) \in 1..Len(t) /\ v[i] = t[i - (Len(s) - 1)])
  BY <1>1, JoinFacts
<1>6. Len(v) = Len(Tail(u)) /\ Len(u) = Len(s) + Len(t)
  BY <1>1, <1>2, <1>4, <1>5
<1> HIDE DEF u, v
<1>7. ASSUME NEW i \in 1..Len(v) PROVE v[i] = Tail(u)[i]
  <2>1. Tail(u)[i] = u[i + 1] /\ i + 1 \in 1..Len(u)
    BY <1>1, <1>4, <1>5, <1>6
  <2>2. CASE i \in 1..(Len(s) - 1)
    <3>1. v[i] = s[i + 1] /\ i + 1 \in 1..Len(s)
      BY <1>1, <1>5, <2>2
    <3> QED
      BY <1>2, <2>1, <3>1 DEF u
  <2>3. CASE i \notin 1..(Len(s) - 1)
    <3>1. v[i] = t[i - (Len(s) - 1)]
      BY <1>1, <1>5, <2>3
    <3>2. i + 1 \notin 1..Len(s) /\ i + 1 \in 1..(Len(s) + Len(t))
      BY <1>1, <1>5, <2>3
    <3>3. u[i + 1] = t[(i + 1) - Len(s)]
      BY <1>2, <3>2 DEF u
    <3>4. (i + 1) - Len(s) = i - (Len(s) - 1)
      BY <1>1
    <3> QED
      BY <2>1, <3>1, <3>3, <3>4
  <2> QED
    BY <2>2, <2>3
<1>8. v = Tail(u)
  BY <1>4, <1>5, <1>6, <1>7, SeqEqual
<1> QED
  BY <1>1, <1>3, <1>8 DEF u, v

\* The range of a sequence that was appended to.
LEMMA RangeAppend ==
  ASSUME NEW S, NEW s \in Seq(S), NEW e \in S
  PROVE  Range(Append(s, e)) = Range(s) \cup {e}
<1>1. /\ DOMAIN s = 1..Len(s) /\ DOMAIN Append(s, e) = 1..(Len(s) + 1) /\ Len(s) \in Nat
      /\ Append(s, e)[Len(s) + 1] = e
      /\ \A i \in 1..Len(s) : Append(s, e)[i] = s[i] /\ i \in 1..(Len(s) + 1)
      /\ \A i \in 1..(Len(s) + 1) : i = Len(s) + 1 \/ i \in 1..Len(s)
      /\ Len(s) + 1 \in 1..(Len(s) + 1)
  OBVIOUS
<1>2. ASSUME NEW a \in Range(Append(s, e)) PROVE a \in Range(s) \cup {e}
  <2>1. PICK i \in 1..(Len(s) + 1) : a = Append(s, e)[i]
    BY <1>1, <1>2 DEF Range
  <2> QED
    BY <1>1, <2>1 DEF Range
<1>3. ASSUME NEW a \in Range(s) PROVE a \in Range(Append(s, e))
  BY <1>1, <1>3 DEF Range
<1>4. e \in Range(Append(s, e))
  BY <1>1 DEF Range
<1> QED
  BY <1>2, <1>3, <1>4

\* Nothing was sent yet.
LEMMA InitHttpInv == HttpInit => HttpInv /\ OrderInv
<1> SUFFICES ASSUME HttpInit PROVE HttpInv /\ OrderInv
  OBVIOUS
<1>1. HttpTypes
  <2>1. hooks \in [Requests -> [before : Nat, after : Seq(Int)]]
    BY DEF HttpInit
  <2>2. <<>> \in Seq(AllKinds) /\ <<>> \in Seq(Piece) /\ <<>> \in Seq(Requests) /\ Len(<<>>) = 0
    OBVIOUS
  <2>3. Len(kind) <= MaxRequests
    BY <2>2, MaxRequestsAssumption DEF HttpInit
  <2> QED
    BY <2>1, <2>2, <2>3 DEF HttpInit, HttpTypes
<1>2. Runs(kind, Expected, Coming)
  <2>1. Coming = <<>> /\ Expected = <<1, "start">> /\ kind = <<>>
    BY DEF HttpInit, Coming, Expected
  <2> QED
    BY <2>1 DEF Runs, At, End
<1>3. Parsing
  BY <1>2 DEF HttpInit, Parsing
<1>4. Responding
  BY DEF HttpInit, Responding
<1>5. Asynchronous /\ Open = {}
  BY DEF HttpInit, Asynchronous, Open
<1>6. Hooked
  BY DEF HttpInit, Hooked, Answered, Range
<1>7. OrderInv
  BY <1>5 DEF HttpInit, OrderInv, ResponsesInOrder
<1> QED
  BY <1>1, <1>3, <1>4, <1>5, <1>6, <1>7 DEF HttpInv

\* A step of the parser that neither responds nor dispatches.
LEMMA ParserOnly ==
  ASSUME HttpInv, HttpTypes', Parsing',
         UNCHANGED <<kind, tcp, working, completed, queue, dispatched, responses, hooks>>
  PROVE  HttpInv' /\ (OrderInv => OrderInv')
<1>1. Open' = Open /\ \A r : Answered(r)' = Answered(r)
  BY DEF Open, Answered
<1>2. Responding' /\ Asynchronous' /\ Hooked'
  BY <1>1 DEF HttpInv, Responding, Asynchronous, Hooked
<1>3. OrderInv => OrderInv'
  BY <1>1 DEF OrderInv, ResponsesInOrder
<1> QED
  BY <1>2, <1>3 DEF HttpInv

\* Bytes arrive.  If the last request closed the connection there are none.
LEMMA ReadStep ==
  ASSUME HttpInv, handleRead
  PROVE  HttpInv' /\ (OrderInv => OrderInv')
<1> USE DEF HttpInv
<1>1. PICK n \in 1..Len(net) : /\ inbuf' = inbuf \o SubSeq(net, 1, n)
                               /\ net' = SubSeq(net, n + 1, Len(net))
  BY DEF handleRead
<1>2. /\ pc = "idle" /\ tcp # "closed" /\ pc' = "top"
      /\ UNCHANGED <<kind, state, cur, tcp, working, completed, queue, dispatched, responses, hooks>>
  BY DEF handleRead
<1>3. inbuf \in Seq(Piece) /\ net \in Seq(Piece) /\ Len(net) \in Nat /\ net # <<>>
  BY <1>1 DEF HttpTypes
<1> DEFINE a == SubSeq(net, 1, n)
           b == SubSeq(net, n + 1, Len(net))
<1>4. a \in Seq(Piece) /\ b \in Seq(Piece) /\ net = a \o b
  <2>1. a \in Seq(Piece) /\ b \in Seq(Piece)
    BY <1>3
  <2>2. a \o b = net
    <3>1. /\ Len(a) = n /\ Len(b) = Len(net) - n
          /\ \A i \in 1..n : a[i] = net[i]
          /\ \A i \in 1..(Len(net) - n) : b[i] = net[n + i]
      BY <1>3
    <3> HIDE DEF a, b
    <3>2. a \o b \in Seq(Piece) /\ Len(a \o b) = Len(net)
      <4>1. a \o b \in Seq(Piece) /\ Len(a \o b) = Len(a) + Len(b)
        BY <2>1, JoinFacts
      <4> QED
        BY <1>3, <3>1, <4>1
    <3>3. ASSUME NEW i \in 1..Len(net) PROVE (a \o b)[i] = net[i]
      <4>1. CASE i \in 1..n
        BY <2>1, <3>1, <4>1, JoinFacts
      <4>2. CASE i \notin 1..n
        <5>1. i - n \in 1..Len(b) /\ (a \o b)[i] = b[i - n]
          BY <1>3, <2>1, <3>1, <4>2, JoinFacts
        <5>2. b[i - n] = net[n + (i - n)] /\ n + (i - n) = i
          BY <1>3, <3>1, <5>1
        <5> QED
          BY <5>1, <5>2
      <4> QED
        BY <4>1, <4>2
    <3> QED
      BY <1>3, <3>2, <3>3, SeqEqual
  <2> QED
    BY <2>1, <2>2
<1> HIDE DEF a, b
<1>5. inbuf' \in Seq(Piece) /\ net' \in Seq(Piece) /\ Coming' = Coming
  <2>1. inbuf' = inbuf \o a /\ net' = b
    BY <1>1 DEF a, b
  <2>2. (inbuf \o a) \o b = inbuf \o (a \o b)
    BY <1>3, <1>4, PiecesJoin
  <2>3. inbuf \o a \in Seq(Piece)
    BY <1>3, <1>4, JoinFacts
  <2>4. Coming' = (inbuf \o a) \o b
    BY <2>1 DEF Coming
  <2>5. Coming' = inbuf \o net
    BY <1>4, <2>2, <2>4
  <2> QED
    BY <1>4, <2>1, <2>3, <2>5 DEF Coming
<1>6. state # "complete"
  <2>1. SUFFICES ASSUME state = "complete" PROVE FALSE
    OBVIOUS
  <2>2. cur = Len(kind) /\ Runs(kind, Expected, Coming)
    BY <1>2, <2>1 DEF Parsing
  <2>3. Expected = End(kind) /\ kind \in Seq(AllKinds)
    BY <2>1, <2>2 DEF Expected, End, HttpTypes
  <2>4. Coming = <<>>
    BY <2>2, <2>3, RunsOut
  <2>5. Len(Coming) = Len(inbuf) + Len(net) /\ Len(inbuf) \in Nat
    BY <1>3, JoinFacts DEF Coming
  <2> QED
    BY <1>1, <1>3, <2>4, <2>5
<1>7. HttpTypes'
  BY <1>2, <1>5 DEF HttpTypes
<1>8. Expected' = Expected
  BY <1>2 DEF Expected
<1>9. Parsing'
  BY <1>2, <1>5, <1>6, <1>8 DEF Parsing
<1> QED
  BY <1>2, <1>7, <1>9, ParserOnly

\* The loop looks at the buffer; a context that is complete is not met here.
LEMMA MessageStep ==
  ASSUME HttpInv, onMessage
  PROVE  HttpInv' /\ (OrderInv => OrderInv')
<1> USE DEF HttpInv
<1>1. /\ pc = "top" /\ pc' \in {"idle", "parse", "dispatch"}
      /\ state # "complete" => pc' # "dispatch"
      /\ UNCHANGED <<kind, net, inbuf, state, cur, tcp, working, completed, queue, dispatched,
                     responses, hooks>>
  BY DEF onMessage
<1>2. state # "complete" /\ tcp # "closed"
  BY <1>1 DEF Parsing
<1>3. HttpTypes'
  BY <1>1 DEF HttpTypes
<1>4. Expected' = Expected /\ Coming' = Coming
  BY <1>1 DEF Expected, Coming
<1>5. Parsing'
  BY <1>1, <1>2, <1>4 DEF Parsing
<1> QED
  BY <1>1, <1>3, <1>5, ParserOnly

\* The parser spins.
LEMMA SpinStep ==
  ASSUME HttpInv, ParserSpins
  PROVE  HttpInv' /\ (OrderInv => OrderInv')
<1> USE DEF HttpInv
<1>1. /\ pc = "parse" /\ pc' = "spin"
      /\ UNCHANGED <<kind, net, inbuf, state, cur, tcp, working, completed, queue, dispatched,
                     responses, hooks>>
  BY DEF ParserSpins
<1>2. HttpTypes'
  BY <1>1 DEF HttpTypes
<1>3. Expected' = Expected /\ Coming' = Coming
  BY <1>1 DEF Expected, Coming
<1>4. Parsing'
  BY <1>1, <1>3 DEF Parsing
<1> QED
  BY <1>1, <1>2, <1>4, ParserOnly

\* The parser takes the piece that it expects.
LEMMA TakeExpected ==
  ASSUME HttpInv, tcp # "closed", inbuf # <<>>
  PROVE  /\ inbuf[1] = Expected /\ Expected[1] \in 1..Len(kind)
         /\ Tail(inbuf) \in Seq(Piece) /\ Len(Tail(inbuf)) = Len(inbuf) - 1
         /\ Runs(kind, After(kind, Expected), Tail(inbuf) \o net)
<1>1. inbuf \in Seq(Piece) /\ net \in Seq(Piece) /\ kind \in Seq(AllKinds)
  BY DEF HttpInv, HttpTypes
<1>2. Runs(kind, Expected, inbuf \o net)
  BY DEF HttpInv, Parsing, Coming
<1>3. /\ Tail(inbuf) \in Seq(Piece) /\ Len(Tail(inbuf)) = Len(inbuf) - 1
      /\ inbuf \o net # <<>> /\ (inbuf \o net)[1] = inbuf[1]
      /\ Tail(inbuf) \o net = Tail(inbuf \o net)
  BY <1>1, TakeOne
<1> QED
  BY <1>1, <1>2, <1>3, RunsOn

\* A response is handed to the connection, or dropped.
LEMMA RespondFacts ==
  ASSUME HttpTypes, NEW r \in Requests, NEW close, Respond(r, close)
  PROVE  /\ responses' \in Seq(Requests) /\ Len(responses) \in Nat /\ Len(responses') \in Nat
         /\ \A i \in 1..Len(responses') :
              \/ i \in 1..Len(responses) /\ responses'[i] = responses[i]
              \/ tcp = "connected" /\ i = Len(responses) + 1 /\ responses'[i] = r
         /\ \A x : Answered(x)' <=> (Answered(x) \/ (tcp = "connected" /\ x = r))
         /\ tcp' \in {"connected", "disconnecting", "closed"}
         /\ tcp' = "closed" <=> tcp = "closed"
         /\ tcp' = "connected" => tcp = "connected" /\ ~close
<1>1. responses \in Seq(Requests) /\ Len(responses) \in Nat
  BY DEF HttpTypes
<1>2. CASE tcp = "connected"
  <2>1. responses' = Append(responses, r) /\ tcp' = IF close THEN "disconnecting" ELSE tcp
    BY <1>2 DEF Respond
  <2>2. /\ responses' \in Seq(Requests) /\ Len(responses') = Len(responses) + 1
        /\ \A i \in 1..(Len(responses) + 1) :
              \/ i \in 1..Len(responses) /\ responses'[i] = responses[i]
              \/ i = Len(responses) + 1 /\ responses'[i] = r
    BY <1>1, <2>1
  <2>3. Range(Append(responses, r)) = Range(responses) \cup {r}
    BY <1>1, RangeAppend
  <2>4. \A x : Answered(x)' <=> (Answered(x) \/ x = r)
    BY <2>1, <2>3 DEF Answered
  <2> QED
    BY <1>1, <1>2, <2>1, <2>2, <2>4
<1>3. CASE tcp # "connected"
  <2>1. responses' = responses /\ tcp' = tcp
    BY <1>3 DEF Respond
  <2>2. \A x : Answered(x)' <=> Answered(x)
    BY <2>1 DEF Answered
  <2> QED
    BY <1>1, <1>3, <2>1, <2>2 DEF HttpTypes
<1> QED
  BY <1>2, <1>3

\* A response for a request after all that were answered.
LEMMA RespondInOrder ==
  ASSUME HttpTypes, ResponsesInOrder, NEW r \in Requests, NEW close, Respond(r, close),
         tcp = "connected" => \A i \in 1..Len(responses) : responses[i] < r
  PROVE  ResponsesInOrder'
<1>1. /\ responses' \in Seq(Requests) /\ Len(responses) \in Nat /\ Len(responses') \in Nat
      /\ \A i \in 1..Len(responses') :
           \/ i \in 1..Len(responses) /\ responses'[i] = responses[i]
           \/ tcp = "connected" /\ i = Len(responses) + 1 /\ responses'[i] = r
  BY RespondFacts
<1>2. SUFFICES ASSUME NEW i \in 1..Len(responses'), NEW j \in 1..Len(responses'), i < j
               PROVE  responses'[i] < responses'[j]
  BY DEF ResponsesInOrder
<1>3. CASE j \in 1..Len(responses)
  <2>1. i \in 1..Len(responses) /\ responses'[i] = responses[i] /\ responses'[j] = responses[j]
    BY <1>1, <1>2, <1>3
  <2> QED
    BY <1>2, <1>3, <2>1 DEF ResponsesInOrder
<1>4. CASE j \notin 1..Len(responses)
  <2>1. tcp = "connected" /\ j = Len(responses) + 1 /\ responses'[j] = r
    BY <1>1, <1>4
  <2>2. i \in 1..Len(responses) /\ responses'[i] = responses[i]
    BY <1>1, <1>2, <2>1
  <2> QED
    BY <2>1, <2>2
<1> QED
  BY <1>3, <1>4

\* A request that cannot be parsed: r is the one after those dispatched.
LEMMA ErrorStep ==
  ASSUME HttpInv, NEW r, r = Len(dispatched) + 1, r <= Len(kind), kind[r].bad # "no",
         pc = "parse", ParseError(r),
         UNCHANGED <<kind, net, working, completed, queue, dispatched, hooks>>
  PROVE  HttpInv' /\ (OrderInv => OrderInv')
<1> USE DEF HttpInv
<1>1. pc' = "idle" /\ Respond(r, TRUE) /\ UNCHANGED <<inbuf, state, cur>>
  BY DEF ParseError
<1>2. /\ Len(dispatched) \in Nat /\ Len(kind) \in Nat /\ r \in Requests /\ r \in 1..Len(kind)
  BY MaxRequestsAssumption DEF HttpTypes, Requests
<1>3. /\ responses' \in Seq(Requests) /\ Len(responses) \in Nat /\ Len(responses') \in Nat
      /\ \A i \in 1..Len(responses') :
           \/ i \in 1..Len(responses) /\ responses'[i] = responses[i]
           \/ tcp = "connected" /\ i = Len(responses) + 1 /\ responses'[i] = r
      /\ \A x : Answered(x)' <=> (Answered(x) \/ (tcp = "connected" /\ x = r))
      /\ tcp' \in {"connected", "disconnecting", "closed"}
      /\ tcp' = "closed" <=> tcp = "closed"
      /\ tcp' # "connected"
  BY <1>1, <1>2, RespondFacts
<1>4. tcp # "closed" /\ state # "complete"
  BY DEF Parsing
<1>5. HttpTypes'
  BY <1>1, <1>3 DEF HttpTypes
<1>6. Expected' = Expected /\ Coming' = Coming
  BY <1>1 DEF Expected, Coming
<1>7. Parsing'
  BY <1>1, <1>3, <1>4, <1>6 DEF Parsing
<1>8. Responding'
  BY <1>2, <1>3 DEF Responding
<1>9. Open' = Open
  BY DEF Open
<1>10. Asynchronous'
  <2>1. \A x \in Open : x # r
    BY <1>2 DEF Asynchronous, Open
  <2> QED
    BY <1>3, <1>9, <2>1 DEF Asynchronous
<1>11. Hooked'
  <2>1. \A x \in Requests : x <= Len(dispatched) => x # r
    BY <1>2
  <2> QED
    BY <1>3, <2>1 DEF Hooked
<1>12. OrderInv => OrderInv'
  <2> SUFFICES ASSUME OrderInv PROVE OrderInv'
    OBVIOUS
  <2>1. tcp = "connected" => \A i \in 1..Len(responses) : responses[i] < r
    <3>1. tcp = "connected" => \A i \in 1..Len(responses) : responses[i] \in 1..Len(dispatched)
      BY DEF Responding
    <3> QED
      BY <1>2, <3>1
  <2>2. ResponsesInOrder'
    BY <1>1, <1>2, <2>1, RespondInOrder DEF OrderInv
  <2> QED
    BY <1>3, <1>9, <2>2 DEF OrderInv
<1> QED
  BY <1>5, <1>7, <1>8, <1>10, <1>11, <1>12

\* The request line.
LEMMA LineStep ==
  ASSUME HttpInv, ParseRequestLine
  PROVE  HttpInv' /\ (OrderInv => OrderInv')
<1> USE DEF HttpInv
<1> DEFINE r == Head(inbuf)[1]
<1>1. /\ pc = "parse" /\ state = "line" /\ tcp # "closed"
      /\ UNCHANGED <<kind, net, working, completed, queue, dispatched, hooks>>
  BY DEF ParseRequestLine, Parsing
<1>2. inbuf \in Seq(Piece) /\ Len(inbuf) \in Nat /\ Len(dispatched) \in Nat /\ Len(kind) \in Nat
  BY DEF HttpTypes
<1>3. CASE Len(inbuf) < 2 /\ pc' = "idle" /\ UNCHANGED <<inbuf, state, cur, tcp, responses>>
  <2>1. HttpTypes'
    BY <1>1, <1>3 DEF HttpTypes
  <2>2. Expected' = Expected /\ Coming' = Coming
    BY <1>1, <1>3 DEF Expected, Coming
  <2>3. Parsing'
    BY <1>1, <1>3, <2>2 DEF Parsing
  <2> QED
    BY <1>1, <1>3, <2>1, <2>3, ParserOnly
<1>4. ASSUME Len(inbuf) >= 2
      PROVE  /\ r = Len(dispatched) + 1 /\ r \in 1..Len(kind)
             /\ SubSeq(inbuf, 3, Len(inbuf)) \in Seq(Piece)
             /\ Runs(kind, <<r, "head">>, SubSeq(inbuf, 3, Len(inbuf)) \o net)
  <2>1. /\ inbuf[1] = Expected /\ Expected[1] \in 1..Len(kind)
        /\ Tail(inbuf) \in Seq(Piece) /\ Len(Tail(inbuf)) = Len(inbuf) - 1
        /\ Runs(kind, After(kind, Expected), Tail(inbuf) \o net)
    BY <1>1, <1>2, <1>4, TakeExpected
  <2>2. Expected = <<Len(dispatched) + 1, "start">> /\ inbuf[1] = Head(inbuf)
    BY <1>1, <1>2, <1>4 DEF Expected
  <2>3. After(kind, Expected) = <<r, "line">> /\ r = Len(dispatched) + 1
    BY <2>1, <2>2 DEF After
  <2> DEFINE t == Tail(inbuf)
  <2>4. t # <<>> /\ t \in Seq(Piece) /\ net \in Seq(Piece) /\ kind \in Seq(AllKinds)
    <3>1. Len(t) # 0
      BY <1>2, <1>4, <2>1
    <3> HIDE DEF t
    <3>2. t # <<>>
      BY <3>1
    <3>3. net \in Seq(Piece) /\ kind \in Seq(AllKinds)
      BY DEF HttpTypes
    <3> QED
      BY <2>1, <3>2, <3>3 DEF t
  <2>5. Tail(t) = SubSeq(inbuf, 3, Len(inbuf))
    BY <1>2, <1>4
  <2> HIDE DEF t
  <2>6. /\ Tail(t) \in Seq(Piece) /\ t \o net # <<>> /\ Tail(t) \o net = Tail(t \o net)
    BY <2>4, TakeOne
  <2>7. Runs(kind, <<r, "line">>, t \o net)
    BY <2>1, <2>3 DEF t
  <2>8. Runs(kind, After(kind, <<r, "line">>), Tail(t) \o net)
    BY <2>4, <2>6, <2>7, RunsOn
  <2>9. After(kind, <<r, "line">>) = <<r, "head">>
    BY DEF After
  <2> QED
    BY <2>1, <2>2, <2>3, <2>5, <2>6, <2>8, <2>9
<1>5. CASE Len(inbuf) >= 2 /\ kind[r].bad = "line" /\ ParseError(r)
  <2>1. r = Len(dispatched) + 1 /\ r <= Len(kind)
    BY <1>2, <1>4, <1>5
  <2> HIDE DEF r
  <2> QED
    BY <1>1, <1>5, <2>1, ErrorStep
<1>6. CASE /\ Len(inbuf) >= 2 /\ kind[r].bad # "line"
           /\ inbuf' = SubSeq(inbuf, 3, Len(inbuf))
           /\ state' = "headers"
           /\ cur' = r
           /\ UNCHANGED <<pc, tcp, responses>>
  <2>1. /\ r = Len(dispatched) + 1 /\ r \in 1..Len(kind) /\ r \in Nat
        /\ inbuf' \in Seq(Piece)
        /\ Runs(kind, <<r, "head">>, inbuf' \o net)
    BY <1>2, <1>4, <1>6
  <2> HIDE DEF r
  <2>2. HttpTypes'
    BY <1>1, <1>6, <2>1 DEF HttpTypes
  <2>3. Expected' = <<r, "head">> /\ Coming' = inbuf' \o net
    BY <1>1, <1>6 DEF Expected, Coming
  <2>4. Parsing'
    BY <1>1, <1>2, <1>6, <2>1, <2>3 DEF Parsing
  <2> QED
    BY <1>1, <1>6, <2>2, <2>4, ParserOnly
<1> QED
  BY <1>3, <1>5, <1>6 DEF ParseRequestLine

\* The headers and the body.
LEMMA HeadersStep ==
  ASSUME HttpInv, parseHeaders \/ parseBody
  PROVE  HttpInv' /\ (OrderInv => OrderInv')
<1> USE DEF HttpInv
<1>1. /\ pc = "parse" /\ tcp # "closed" /\ inbuf # <<>> /\ state \in {"headers", "body"}
      /\ UNCHANGED <<kind, net, working, completed, queue, dispatched, hooks>>
  BY DEF parseHeaders, parseBody, Parsing
<1>2. /\ cur = Len(dispatched) + 1 /\ cur <= Len(kind) /\ Len(dispatched) \in Nat
      /\ Len(kind) \in Nat /\ cur \in 1..Len(kind) /\ cur \in Nat
  BY <1>1 DEF Parsing, HttpTypes
<1>3. /\ kind[cur].body \in BOOLEAN /\ kind[cur].bad \in {"no", "line", "head"}
  <2>1. kind \in Seq(AllKinds)
    BY DEF HttpTypes
  <2>2. kind[cur] \in AllKinds
    BY <1>2, <2>1
  <2> QED
    BY <2>2 DEF AllKinds
<1>4. /\ Tail(inbuf) \in Seq(Piece)
      /\ Runs(kind, After(kind, Expected), Tail(inbuf) \o net)
  BY <1>1, TakeExpected
<1>5. CASE state = "headers" /\ kind[cur].bad = "head" /\ ParseError(cur)
  BY <1>1, <1>2, <1>5, ErrorStep
<1>6. CASE /\ inbuf' = Tail(inbuf) /\ UNCHANGED <<cur, tcp, responses>>
           /\ \/ /\ state = "headers" /\ kind[cur].bad # "head"
                 /\ state' = IF kind[cur].body THEN "body" ELSE "complete"
                 /\ pc' = IF kind[cur].body THEN "parse" ELSE "dispatch"
              \/ state = "body" /\ state' = "complete" /\ pc' = "dispatch"
  <2>1. HttpTypes'
    BY <1>1, <1>4, <1>6 DEF HttpTypes
  <2>2. Coming' = Tail(inbuf) \o net
    BY <1>1, <1>6 DEF Coming
  <2>3. Expected' = After(kind, Expected)
    <3>1. CASE state = "headers" /\ kind[cur].body
      BY <1>1, <1>6, <3>1 DEF Expected, After
    <3>2. CASE state = "headers" /\ ~kind[cur].body
      BY <1>1, <1>6, <3>2 DEF Expected, After
    <3>3. CASE state = "body"
      BY <1>1, <1>6, <3>3 DEF Expected, After
    <3> QED
      BY <1>1, <3>1, <3>2, <3>3
  <2>4. kind[cur].bad = "no" /\ ((state' = "body" /\ pc' = "parse") \/ (state' = "complete" /\ pc' = "dispatch"))
    <3>1. kind[cur].bad = "no"
      BY <1>1, <1>3, <1>6 DEF Parsing
    <3>2. (state' = "body" /\ pc' = "parse") \/ (state' = "complete" /\ pc' = "dispatch")
      <4>1. CASE state = "headers" /\ kind[cur].body
        BY <1>6, <4>1
      <4>2. CASE state = "headers" /\ ~kind[cur].body
        BY <1>6, <4>2
      <4>3. CASE state = "body"
        BY <1>6, <4>3
      <4> QED
        BY <1>1, <4>1, <4>2, <4>3
    <3> QED
      BY <3>1, <3>2
  <2>5. Parsing'
    BY <1>1, <1>2, <1>4, <1>6, <2>2, <2>3, <2>4 DEF Parsing
  <2> QED
    BY <1>1, <1>6, <2>1, <2>5, ParserOnly
<1> QED
  BY <1>5, <1>6 DEF parseHeaders, parseBody

\* A response that is to come is for a request that was dispatched.
LEMMA OpenFacts ==
  ASSUME HttpInv, NEW r \in Open
  PROVE  r \in 1..Len(dispatched) /\ r \in Requests /\ r \in 1..Len(kind)
<1>1. r \in 1..Len(dispatched)
  BY DEF HttpInv, Asynchronous, Open
<1>2. /\ Len(dispatched) \in Nat /\ Len(kind) \in Nat /\ Len(dispatched) <= Len(kind)
      /\ Len(kind) <= MaxRequests
  BY DEF HttpInv, HttpTypes, Parsing
<1> QED
  BY <1>1, <1>2, MaxRequestsAssumption DEF Requests

\* The client sends a request: it joins the stream behind the others.  The last one
\* did not ask for the connection to be closed.
LEMMA SendStep ==
  ASSUME HttpInv, NEW k \in AllKinds, sendRequest(k)
  PROVE  HttpInv' /\ (OrderInv => OrderInv')
<1> USE DEF HttpInv
<1> DEFINE n == Len(kind)
           p == Pieces(n + 1, k)
<1>1. /\ tcp # "closed" /\ n < MaxRequests /\ Ready
      /\ kind' = Append(kind, k) /\ net' = net \o p
      /\ UNCHANGED <<inbuf, pc, state, cur, tcp, working, completed, queue, dispatched,
                     responses, hooks>>
  BY DEF sendRequest
<1>2. kind \in Seq(AllKinds) /\ n \in Nat /\ inbuf \in Seq(Piece) /\ net \in Seq(Piece)
      /\ Len(dispatched) \in Nat /\ Len(dispatched) <= n
  BY DEF HttpTypes, Parsing
<1>3. p \in Seq(Piece)
  <2>1. n + 1 \in Nat
    BY <1>2
  <2> QED
    BY <2>1, PieceFacts
<1>4. /\ kind' \in Seq(AllKinds) /\ Len(kind') = n + 1 /\ Len(kind') <= MaxRequests
      /\ \A i \in 1..n : kind'[i] = kind[i]
  BY <1>1, <1>2, MaxRequestsAssumption
<1>5. Runs(kind', Expected, Coming \o p)
  <2>1. Runs(kind, Expected, Coming)
    BY <1>1 DEF Parsing
  <2> QED
    BY <1>1, <1>2, <2>1, RunsLonger
<1> HIDE DEF p
<1>6. Coming' = Coming \o p /\ Expected' = Expected /\ net' \in Seq(Piece)
  <2>1. (inbuf \o net) \o p = inbuf \o (net \o p)
    BY <1>2, <1>3, PiecesJoin
  <2>2. net \o p \in Seq(Piece)
    BY <1>2, <1>3, JoinFacts
  <2>3. Coming' = inbuf \o (net \o p)
    BY <1>1 DEF Coming
  <2>4. Expected' = Expected
    BY <1>1 DEF Expected
  <2> QED
    BY <1>1, <2>1, <2>2, <2>3, <2>4 DEF Coming
<1>7. HttpTypes'
  BY <1>1, <1>4, <1>6 DEF HttpTypes
<1>8. n # 0 => ~kind[n].close /\ (kind[n] \in Eager \/ Answered(n))
  <2>1. n # 0 => kind # <<>>
    BY <1>2
  <2> QED
    BY <1>1, <2>1 DEF Ready
<1>9. \A i \in 1..(Len(kind') - 1) : ~kind'[i].close
  <2>1. ASSUME NEW i \in 1..n PROVE ~kind[i].close
    <3>1. CASE i = n
      BY <1>2, <1>8, <3>1
    <3>2. CASE i # n
      <4>1. i \in 1..(n - 1)
        BY <1>2, <3>2
      <4> QED
        BY <4>1 DEF Parsing
    <3> QED
      BY <3>1, <3>2
  <2> QED
    BY <1>2, <1>4, <2>1
<1> HIDE DEF n
<1>10. Parsing'
  <2>1. \A i \in 1..Len(dispatched) : i \in 1..n
    BY <1>2
  <2>2. state \in {"headers", "body", "complete"} => cur \in 1..n
    <3>1. CASE state \in {"headers", "body"} \/ (state = "complete" /\ pc = "dispatch")
      <4>1. cur = Len(dispatched) + 1 /\ cur <= n
        BY <3>1 DEF Parsing, n
      <4> QED
        BY <1>2, <4>1
    <3>2. CASE state = "complete" /\ pc # "dispatch"
      <4>1. cur = n /\ cur # 0
        BY <3>2 DEF Parsing, n
      <4> QED
        BY <1>2, <4>1
    <3> QED
      BY <3>1, <3>2
  <2>3. kind'[cur] = kind[cur] \/ state = "line"
    BY <1>4, <2>2 DEF HttpTypes
  <2>4. state = "complete" => pc = "dispatch" /\ cur = Len(dispatched) + 1 /\ cur <= n + 1
    BY <1>2, <1>8, <2>2 DEF Parsing, n
  <2>5. state \in {"headers", "body"} => cur = Len(dispatched) + 1 /\ cur <= n + 1
    BY <1>2, <2>2 DEF Parsing, n
  <2>6. \A i \in 1..Len(dispatched) : dispatched[i] = i /\ kind'[i].bad = "no"
    BY <1>4, <2>1 DEF Parsing
  <2> QED
    BY <1>1, <1>2, <1>4, <1>5, <1>6, <1>9, <2>3, <2>4, <2>5, <2>6 DEF Parsing
<1>11. Open' = Open /\ \A r : Answered(r)' = Answered(r)
  BY <1>1 DEF Open, Answered
<1>12. Responding'
  <2>1. ASSUME NEW i \in 1..Len(responses)
        PROVE  /\ responses[i] \in 1..(n + 1) /\ kind'[responses[i]] = kind[responses[i]]
    BY <1>2, <1>4 DEF Responding, n
  <2> QED
    BY <1>1, <1>4, <2>1 DEF Responding
<1>13. Asynchronous' /\ Hooked'
  BY <1>1, <1>11 DEF Asynchronous, Hooked
<1>14. OrderInv => OrderInv'
  <2> SUFFICES ASSUME OrderInv PROVE OrderInv'
    OBVIOUS
  <2>1. ASSUME NEW i \in 1..n PROVE kind'[i] \in Eager \/ Answered(i)
    <3>1. CASE i = n
      BY <1>2, <1>4, <1>8, <3>1
    <3>2. CASE i # n
      <4>1. i \in 1..(n - 1)
        BY <1>2, <3>2
      <4> QED
        BY <1>4, <4>1 DEF OrderInv, n
    <3> QED
      BY <3>1, <3>2
  <2>2. \A r \in Open : kind'[r] \notin Eager
    <3>1. ASSUME NEW r \in Open PROVE r \in 1..n
      BY OpenFacts DEF n
    <3> QED
      BY <1>4, <3>1 DEF OrderInv
  <2>3. ResponsesInOrder'
    BY <1>1 DEF OrderInv, ResponsesInOrder
  <2>4. \A i \in 1..(Len(kind') - 1) : i \in 1..n
    BY <1>2, <1>4
  <2> QED
    BY <1>11, <2>1, <2>2, <2>3, <2>4 DEF OrderInv
<1> QED
  BY <1>7, <1>10, <1>12, <1>13, <1>14

\* The peer closes: the loop is idle, and what was on its way is lost.
LEMMA CloseStep ==
  ASSUME HttpInv, PeerCloses
  PROVE  HttpInv' /\ (OrderInv => OrderInv')
<1> USE DEF HttpInv
<1>1. /\ pc = "idle" /\ tcp' = "closed" /\ net' = <<>>
      /\ UNCHANGED <<kind, inbuf, pc, state, cur, working, completed, queue, dispatched,
                     responses, hooks>>
  BY DEF PeerCloses
<1>2. HttpTypes'
  <2>1. <<>> \in Seq(Piece)
    OBVIOUS
  <2> QED
    BY <1>1, <2>1 DEF HttpTypes
<1>3. Parsing'
  BY <1>1 DEF Parsing
<1>4. Open' = Open /\ \A r : Answered(r)' = Answered(r)
  BY <1>1 DEF Open, Answered
<1>5. Responding' /\ Asynchronous' /\ Hooked'
  BY <1>1, <1>4 DEF Responding, Asynchronous, Hooked
<1>6. OrderInv => OrderInv'
  BY <1>1, <1>4 DEF OrderInv, ResponsesInOrder
<1> QED
  BY <1>2, <1>3, <1>5, <1>6

\* The request that is to be dispatched: the next one, of which nothing was seen yet.
LEMMA DispatchFacts ==
  ASSUME HttpInv, pc = "dispatch"
  PROVE  /\ Len(dispatched) \in Nat /\ Len(kind) \in Nat /\ state = "complete"
         /\ cur = Len(dispatched) + 1 /\ cur \in 1..Len(kind) /\ cur \in Requests
         /\ kind[cur].bad = "no" /\ tcp # "closed"
         /\ Runs(kind, <<cur + 1, "start">>, Coming)
         /\ hooks[cur] \in [before : Nat, after : Seq(Int)] /\ hooks[cur].after = <<>>
         /\ \A r \in Open : r < cur
         /\ tcp = "connected" => \A i \in 1..Len(responses) : responses[i] < cur
<1> USE DEF HttpInv
<1>1. Len(dispatched) \in Nat /\ Len(kind) \in Nat /\ Len(kind) <= MaxRequests
  BY DEF HttpTypes
<1>2. /\ state = "complete" /\ cur = Len(dispatched) + 1 /\ cur <= Len(kind)
      /\ kind[cur].bad = "no" /\ tcp # "closed"
  BY DEF Parsing
<1>3. cur \in 1..Len(kind) /\ cur \in Requests
  BY <1>1, <1>2, MaxRequestsAssumption DEF Requests
<1>4. Runs(kind, <<cur + 1, "start">>, Coming)
  <2>1. Expected = <<cur + 1, "start">>
    BY <1>2 DEF Expected
  <2> QED
    BY <1>2, <2>1 DEF Parsing
<1>5. hooks[cur] \in [before : Nat, after : Seq(Int)] /\ hooks[cur].after = <<>>
  <2>1. cur > Len(dispatched)
    BY <1>1, <1>2
  <2> QED
    BY <1>3, <2>1 DEF HttpTypes, Hooked
<1>6. ASSUME NEW r \in Open PROVE r < cur
  BY <1>1, <1>2, OpenFacts
<1>7. ASSUME tcp = "connected", NEW i \in 1..Len(responses) PROVE responses[i] < cur
  <2>1. responses[i] \in 1..Len(dispatched)
    BY <1>7 DEF Responding
  <2> QED
    BY <1>1, <1>2, <2>1
<1> QED
  BY <1>1, <1>2, <1>3, <1>4, <1>5, <1>6, <1>7

\* The next request is dispatched.
LEMMA DispatchedFacts ==
  ASSUME HttpInv, pc = "dispatch", dispatched' = Append(dispatched, cur)
  PROVE  /\ dispatched' \in Seq(Requests) /\ Len(dispatched') = cur
         /\ \A i \in 1..cur : dispatched'[i] = i /\ kind[i].bad = "no"
<1>1. /\ Len(dispatched) \in Nat /\ cur = Len(dispatched) + 1 /\ cur \in Requests
      /\ kind[cur].bad = "no"
  BY DispatchFacts
<1>2. dispatched \in Seq(Requests)
  BY DEF HttpInv, HttpTypes
<1>3. /\ dispatched' \in Seq(Requests) /\ Len(dispatched') = Len(dispatched) + 1
      /\ dispatched'[Len(dispatched) + 1] = cur
      /\ \A i \in 1..Len(dispatched) : dispatched'[i] = dispatched[i]
  BY <1>1, <1>2
<1>4. \A i \in 1..Len(dispatched) : dispatched[i] = i /\ kind[i].bad = "no"
  BY DEF HttpInv, Parsing
<1>5. \A i \in 1..cur : i \in 1..Len(dispatched) \/ i = Len(dispatched) + 1
  BY <1>1
<1> QED
  BY <1>1, <1>3, <1>4, <1>5

\* A request whose response will come later.
LEMMA AsyncStep ==
  ASSUME HttpInv, onRequestAsync
  PROVE  HttpInv' /\ (OrderInv => OrderInv')
<1> USE DEF HttpInv
<1>1. PICK d \in Outcomes(kind[cur].q) :
        d.async /\ hooks' = [hooks EXCEPT ![cur].before = d.before]
  BY DEF onRequestAsync
<1>2. /\ pc = "dispatch" /\ pc' = "idle" /\ dispatched' = Append(dispatched, cur)
      /\ working' = working \cup {cur} /\ state' = "line" /\ cur' = 0
      /\ UNCHANGED <<kind, net, inbuf, tcp, completed, queue, responses>>
  BY DEF onRequestAsync, Reset
<1>3. /\ Len(dispatched) \in Nat /\ Len(kind) \in Nat /\ state = "complete"
      /\ cur = Len(dispatched) + 1 /\ cur \in 1..Len(kind) /\ cur \in Requests
      /\ kind[cur].bad = "no" /\ tcp # "closed"
      /\ Runs(kind, <<cur + 1, "start">>, Coming)
      /\ hooks[cur] \in [before : Nat, after : Seq(Int)] /\ hooks[cur].after = <<>>
      /\ \A r \in Open : r < cur
  BY <1>2, DispatchFacts
<1>4. /\ dispatched' \in Seq(Requests) /\ Len(dispatched') = cur
      /\ \A i \in 1..cur : dispatched'[i] = i /\ kind[i].bad = "no"
  BY <1>2, DispatchedFacts
<1>5. d.before \in Nat
  BY HooksCounted
<1>6. /\ hooks' \in [Requests -> [before : Nat, after : Seq(Int)]]
      /\ \A r \in Requests : hooks'[r].after = hooks[r].after
      /\ \A r \in Requests : r # cur => hooks'[r] = hooks[r]
  BY <1>1, <1>3, <1>5 DEF HttpTypes
<1>7. HttpTypes'
  BY <1>2, <1>3, <1>4, <1>6 DEF HttpTypes
<1>8. Expected' = <<cur + 1, "start">> /\ Coming' = Coming
  BY <1>2, <1>4 DEF Expected, Coming
<1>9. Parsing'
  BY <1>2, <1>3, <1>4, <1>8 DEF Parsing
<1>10. \A r : Answered(r)' = Answered(r)
  BY <1>2 DEF Answered
<1>11. Responding'
  <2>1. \A i \in 1..Len(dispatched) : i \in 1..cur
    BY <1>3
  <2> QED
    BY <1>2, <1>4, <2>1 DEF Responding
<1>12. ~Answered(cur)
  <2>1. ASSUME NEW i \in 1..Len(responses) PROVE responses[i] # cur
    BY <1>3 DEF Responding
  <2>2. responses \in Seq(Requests)
    BY DEF HttpTypes
  <2> QED
    BY <2>1, <2>2 DEF Answered, Range
<1>13. \A r \in Open' : r \in Open \/ r = cur
  BY <1>2 DEF Open
<1>14. Asynchronous'
  <2>1. \A r \in Open' : ~Answered(r)' /\ hooks'[r].after = <<>>
    <3>1. ASSUME NEW r \in Open PROVE ~Answered(r)' /\ hooks'[r].after = <<>>
      <4>1. r \in Requests
        BY OpenFacts
      <4> QED
        BY <1>6, <1>10, <4>1 DEF Asynchronous
    <3>2. \A r : r = cur => ~Answered(r)' /\ hooks'[r].after = <<>>
      BY <1>3, <1>6, <1>10, <1>12
    <3> QED
      BY <1>13, <3>1, <3>2
  <2>2. (working \cup completed)' \subseteq 1..cur
    <3>1. \A r \in working \cup completed : r \in 1..Len(dispatched)
      BY DEF Asynchronous
    <3>2. \A r \in 1..Len(dispatched) : r \in 1..cur
      BY <1>3
    <3>3. cur \in 1..cur
      BY <1>3
    <3> QED
      BY <1>2, <3>1, <3>2, <3>3
  <2> QED
    BY <1>2, <1>4, <2>1, <2>2 DEF Asynchronous
<1>15. Hooked'
  <2>1. ASSUME NEW r \in Requests
        PROVE  /\ r > cur => hooks'[r].after = <<>>
               /\ hooks'[r].after \in {<<>>, Pairing(hooks'[r].before)}
               /\ r <= cur /\ Answered(r)' => hooks'[r].after = Pairing(hooks'[r].before)
    <3>1. CASE r = cur
      BY <1>3, <1>6, <1>10, <1>12, <3>1
    <3>2. CASE r # cur
      <4>1. hooks'[r] = hooks[r] /\ (r > cur => r > Len(dispatched)) /\ (r <= cur => r <= Len(dispatched))
        BY <1>3, <1>6, <3>2 DEF Requests
      <4> QED
        BY <1>10, <4>1 DEF Hooked
    <3> QED
      BY <3>1, <3>2
  <2> QED
    BY <1>4, <2>1 DEF Hooked
<1>16. OrderInv => OrderInv'
  <2> SUFFICES ASSUME OrderInv PROVE OrderInv'
    OBVIOUS
  <2>1. kind[cur] \notin Eager
    BY <1>1, EagerAssumption
  <2>2. \A r \in Open' : kind[r] \notin Eager
    BY <1>13, <2>1 DEF OrderInv
  <2>3. ResponsesInOrder'
    BY <1>2 DEF OrderInv, ResponsesInOrder
  <2> QED
    BY <1>2, <1>10, <2>2, <2>3 DEF OrderInv
<1> QED
  BY <1>7, <1>9, <1>11, <1>14, <1>15, <1>16

\* A request that is answered at once.  If it closes the connection it is the last
\* one, and the context is left as it is.
LEMMA SyncStep ==
  ASSUME HttpInv, onRequestSync
  PROVE  HttpInv' /\ (OrderInv => OrderInv')
<1> USE DEF HttpInv
<1>0. PICK d \in Outcomes(kind[cur].q) : \E failing \in 0..d.before :
        hooks' = [hooks EXCEPT ![cur].before = d.before,
                               ![cur].after = @ \o processAfter(d.before, failing)]
  BY DEF onRequestSync
<1>1. PICK failing \in 0..d.before :
        hooks' = [hooks EXCEPT ![cur].before = d.before,
                               ![cur].after = @ \o processAfter(d.before, failing)]
  BY <1>0
<1>2. /\ pc = "dispatch" /\ dispatched' = Append(dispatched, cur)
      /\ Respond(cur, kind[cur].close)
      /\ \/ kind[cur].close /\ pc' = "idle" /\ UNCHANGED <<state, cur>>
         \/ ~kind[cur].close /\ pc' = "top" /\ state' = "line" /\ cur' = 0
      /\ UNCHANGED <<kind, net, inbuf, working, completed, queue>>
  BY DEF onRequestSync, Reset
<1>3. /\ Len(dispatched) \in Nat /\ Len(kind) \in Nat /\ state = "complete"
      /\ cur = Len(dispatched) + 1 /\ cur \in 1..Len(kind) /\ cur \in Requests
      /\ kind[cur].bad = "no" /\ tcp # "closed"
      /\ Runs(kind, <<cur + 1, "start">>, Coming)
      /\ hooks[cur] \in [before : Nat, after : Seq(Int)] /\ hooks[cur].after = <<>>
      /\ \A r \in Open : r < cur
      /\ tcp = "connected" => \A i \in 1..Len(responses) : responses[i] < cur
  BY <1>2, DispatchFacts
<1>4. /\ dispatched' \in Seq(Requests) /\ Len(dispatched') = cur
      /\ \A i \in 1..cur : dispatched'[i] = i /\ kind[i].bad = "no"
  BY <1>2, DispatchedFacts
<1>5. /\ responses' \in Seq(Requests) /\ Len(responses) \in Nat /\ Len(responses') \in Nat
      /\ \A i \in 1..Len(responses') :
           \/ i \in 1..Len(responses) /\ responses'[i] = responses[i]
           \/ tcp = "connected" /\ i = Len(responses) + 1 /\ responses'[i] = cur
      /\ \A x : Answered(x)' <=> (Answered(x) \/ (tcp = "connected" /\ x = cur))
      /\ tcp' \in {"connected", "disconnecting", "closed"}
      /\ tcp' = "closed" <=> tcp = "closed"
      /\ tcp' = "connected" => tcp = "connected" /\ ~kind[cur].close
  BY <1>2, <1>3, RespondFacts
<1>6. /\ d.before \in Nat /\ processAfter(d.before, failing) = Pairing(d.before)
      /\ Pairing(d.before) \in Seq(Int) /\ <<>> \o Pairing(d.before) = Pairing(d.before)
  BY HooksCounted, PairingFacts
<1>7. /\ hooks' \in [Requests -> [before : Nat, after : Seq(Int)]]
      /\ hooks'[cur].before = d.before /\ hooks'[cur].after = Pairing(d.before)
      /\ \A r \in Requests : r # cur => hooks'[r] = hooks[r]
  <2>1. hooks \in [Requests -> [before : Nat, after : Seq(Int)]]
    BY DEF HttpTypes
  <2> DEFINE b == d.before
             p == Pairing(b)
  <2>2. hooks' = [hooks EXCEPT ![cur].before = b, ![cur].after = @ \o p]
    BY <1>1, <1>6
  <2>3. b \in Nat /\ p \in Seq(Int) /\ <<>> \o p = p
    BY <1>6
  <2> HIDE DEF b, p
  <2>4. \A r \in Requests : r # cur => hooks'[r] = hooks[r]
    BY <2>1, <2>2
  <2>5. hooks'[cur] = [hooks[cur] EXCEPT !.before = b, !.after = @ \o p]
    BY <1>3, <2>1, <2>2
  <2>6. /\ hooks'[cur].before = b /\ hooks'[cur].after = p
        /\ hooks'[cur] \in [before : Nat, after : Seq(Int)]
    <3> DEFINE h == hooks[cur]
               g == hooks'[cur]
    <3>1. h \in [before : Nat, after : Seq(Int)] /\ h.after = <<>>
      BY <1>3
    <3>2. g = [h EXCEPT !.before = b, !.after = @ \o p]
      BY <2>5
    <3> HIDE DEF h, g
    <3>3. g.before = b /\ g.after = h.after \o p
      BY <3>1, <3>2
    <3>4. g.after = p
      BY <2>3, <3>1, <3>3
    <3>5. g = [before |-> b, after |-> p]
      BY <2>3, <3>1, <3>2
    <3> QED
      BY <2>3, <3>3, <3>4, <3>5 DEF g
  <2>7. hooks' \in [Requests -> [before : Nat, after : Seq(Int)]]
    <3>1. DOMAIN hooks' = Requests /\ hooks' = [r \in Requests |-> hooks'[r]]
      BY <2>1, <2>2
    <3>2. \A r \in Requests : hooks'[r] \in [before : Nat, after : Seq(Int)]
      BY <2>1, <2>4, <2>6
    <3> QED
      BY <3>1, <3>2
  <2> QED
    BY <2>4, <2>6, <2>7 DEF b, p
<1>8. HttpTypes'
  <2>1. /\ pc' \in {"idle", "top"} /\ state' \in {"line", "complete"} /\ cur' \in Nat
    BY <1>2, <1>3
  <2> QED
    BY <1>2, <1>4, <1>5, <1>7, <2>1 DEF HttpTypes
<1>9. Expected' = <<cur + 1, "start">> /\ Coming' = Coming
  <2>1. CASE state' = "line"
    BY <1>2, <1>4, <2>1 DEF Expected, Coming
  <2>2. CASE state' = "complete" /\ cur' = cur
    BY <1>2, <2>2 DEF Expected, Coming
  <2> QED
    BY <1>2, <1>3, <2>1, <2>2
<1>10. Parsing'
  <2>1. kind[cur].close => cur = Len(kind)
    <3>1. cur # Len(kind) => cur \in 1..(Len(kind) - 1)
      BY <1>3
    <3> QED
      BY <3>1 DEF Parsing
  <2>2. CASE kind[cur].close
    BY <1>2, <1>3, <1>4, <1>5, <1>9, <2>1, <2>2 DEF Parsing
  <2>3. CASE ~kind[cur].close
    BY <1>2, <1>3, <1>4, <1>5, <1>9, <2>3 DEF Parsing
  <2> QED
    BY <2>2, <2>3
<1>11. Responding'
  <2>1. \A i \in 1..Len(dispatched) : i \in 1..cur
    BY <1>3
  <2>2. cur \in 1..cur
    BY <1>3
  <2>3. ASSUME NEW i \in 1..Len(responses')
        PROVE  /\ responses'[i] \in 1..Len(kind)
               /\ responses'[i] \in 1..cur \/ kind[responses'[i]].bad # "no"
               /\ tcp' = "connected" => responses'[i] \in 1..cur
    <3>1. CASE i \in 1..Len(responses) /\ responses'[i] = responses[i]
      BY <1>5, <2>1, <3>1 DEF Responding
    <3>2. CASE responses'[i] = cur
      BY <1>3, <2>2, <3>2
    <3> QED
      BY <1>5, <3>1, <3>2
  <2> QED
    BY <1>2, <1>4, <2>3 DEF Responding
<1>12. Open' = Open
  BY <1>2 DEF Open
<1>13. Asynchronous'
  <2>1. ASSUME NEW r \in Open PROVE ~Answered(r)' /\ hooks'[r].after = <<>>
    <3>1. r \in Requests /\ r # cur
      BY <1>3, OpenFacts
    <3> QED
      BY <1>5, <1>7, <3>1 DEF Asynchronous
  <2>2. (working \cup completed)' \subseteq 1..cur
    <3>1. \A r \in working \cup completed : r \in 1..Len(dispatched)
      BY DEF Asynchronous
    <3>2. \A r \in 1..Len(dispatched) : r \in 1..cur
      BY <1>3
    <3> QED
      BY <1>2, <3>1, <3>2
  <2> QED
    BY <1>2, <1>4, <1>12, <2>1, <2>2 DEF Asynchronous
<1>14. Hooked'
  <2>1. ASSUME NEW r \in Requests
        PROVE  /\ r > cur => hooks'[r].after = <<>>
               /\ hooks'[r].after \in {<<>>, Pairing(hooks'[r].before)}
               /\ r <= cur /\ Answered(r)' => hooks'[r].after = Pairing(hooks'[r].before)
    <3>1. CASE r = cur
      <4>1. ~(r > cur)
        BY <1>3, <3>1
      <4> QED
        BY <1>7, <3>1, <4>1
    <3>2. CASE r # cur
      <4>1. hooks'[r] = hooks[r] /\ (r > cur => r > Len(dispatched)) /\ (r <= cur => r <= Len(dispatched))
        BY <1>3, <1>7, <3>2 DEF Requests
      <4> QED
        BY <1>5, <3>2, <4>1 DEF Hooked
    <3> QED
      BY <3>1, <3>2
  <2> QED
    BY <1>4, <2>1 DEF Hooked
<1>15. OrderInv => OrderInv'
  <2> SUFFICES ASSUME OrderInv PROVE OrderInv'
    OBVIOUS
  <2>1. ResponsesInOrder'
    BY <1>2, <1>3, RespondInOrder DEF OrderInv
  <2> QED
    BY <1>2, <1>5, <1>12, <2>1 DEF OrderInv
<1> QED
  BY <1>8, <1>10, <1>11, <1>13, <1>14, <1>15

\* A worker answers: only its first response is queued.
LEMMA AnswerStep ==
  ASSUME HttpInv, NEW r \in Requests, AsyncSend(r)
  PROVE  HttpInv' /\ (OrderInv => OrderInv')
<1> USE DEF HttpInv
<1>1. /\ r \in working /\ completed' = completed \cup {r}
      /\ r \in completed => queue' = queue
      /\ r \notin completed => queue' = Append(queue, r)
      /\ UNCHANGED <<kind, net, inbuf, pc, state, cur, tcp, working, dispatched, responses, hooks>>
  BY DEF AsyncSend
<1>2. queue \in Seq(Requests) /\ Len(queue) \in Nat
  BY DEF HttpTypes
<1>3. /\ queue' \in Seq(Requests) /\ Len(queue') \in Nat
      /\ \A i \in 1..Len(queue') :
           \/ i \in 1..Len(queue) /\ queue'[i] = queue[i]
           \/ i = Len(queue) + 1 /\ queue'[i] = r /\ r \notin completed
  <2>1. CASE r \in completed
    BY <1>1, <1>2, <2>1
  <2>2. CASE r \notin completed
    BY <1>1, <1>2, <2>2
  <2> QED
    BY <2>1, <2>2
<1>4. HttpTypes'
  BY <1>1, <1>3 DEF HttpTypes
<1>5. Expected' = Expected /\ Coming' = Coming /\ \A x : Answered(x)' = Answered(x)
  BY <1>1 DEF Expected, Coming, Answered
<1>6. Parsing' /\ Responding' /\ Hooked'
  BY <1>1, <1>5 DEF Parsing, Responding, Hooked
<1>7. Open' \subseteq Open
  <2>1. ASSUME NEW x \in Open' PROVE x \in Open
    <3>1. CASE x \in working' \ completed'
      BY <1>1, <3>1 DEF Open
    <3>2. CASE \E i \in 1..Len(queue') : x = queue'[i]
      BY <1>1, <1>3, <3>2 DEF Open
    <3> QED
      BY <3>1, <3>2 DEF Open
  <2> QED
    BY <2>1
<1>8. Asynchronous'
  <2>1. (working \cup completed)' \subseteq 1..Len(dispatched')
    BY <1>1 DEF Asynchronous
  <2>2. \A i \in 1..Len(queue') : queue'[i] \in completed'
    BY <1>1, <1>3 DEF Asynchronous
  <2>3. \A i, j \in 1..Len(queue') : i # j => queue'[i] # queue'[j]
    BY <1>3 DEF Asynchronous
  <2>4. \A x \in Open' : ~Answered(x)' /\ hooks'[x].after = <<>>
    BY <1>1, <1>5, <1>7 DEF Asynchronous
  <2> QED
    BY <2>1, <2>2, <2>3, <2>4 DEF Asynchronous
<1>9. OrderInv => OrderInv'
  BY <1>1, <1>5, <1>7 DEF OrderInv, ResponsesInOrder
<1> QED
  BY <1>4, <1>6, <1>8, <1>9

\* A handler returns.
LEMMA ReturnStep ==
  ASSUME HttpInv, NEW r \in Requests, HandlerReturns(r)
  PROVE  HttpInv' /\ (OrderInv => OrderInv')
<1> USE DEF HttpInv
<1>1. /\ r \in completed /\ working' = working \ {r}
      /\ UNCHANGED <<kind, net, inbuf, pc, state, cur, tcp, completed, queue, dispatched,
                     responses, hooks>>
  BY DEF HandlerReturns
<1>2. HttpTypes'
  BY <1>1 DEF HttpTypes
<1>3. Expected' = Expected /\ Coming' = Coming /\ \A x : Answered(x)' = Answered(x)
  BY <1>1 DEF Expected, Coming, Answered
<1>4. Parsing' /\ Responding' /\ Hooked'
  BY <1>1, <1>3 DEF Parsing, Responding, Hooked
<1>5. Open' \subseteq Open
  BY <1>1 DEF Open
<1>6. Asynchronous'
  BY <1>1, <1>3, <1>5 DEF Asynchronous
<1>7. OrderInv => OrderInv'
  BY <1>1, <1>3, <1>5 DEF OrderInv, ResponsesInOrder
<1> QED
  BY <1>2, <1>4, <1>6, <1>7

\* The loop runs a functor.  Its request was neither answered nor seen by after().
LEMMA FunctorStep ==
  ASSUME HttpInv, RunFunctor
  PROVE  HttpInv' /\ (OrderInv => OrderInv')
<1> USE DEF HttpInv
<1> DEFINE r == Head(queue)
<1>1. /\ pc = "idle" /\ queue # <<>> /\ queue' = Tail(queue) /\ Respond(r, kind[r].close)
      /\ tcp # "connected" => hooks' = hooks
      /\ tcp = "connected" => \E failing \in 0..hooks[r].before :
           hooks' = [hooks EXCEPT ![r].after = @ \o processAfter(hooks[r].before, failing)]
      /\ UNCHANGED <<kind, net, inbuf, pc, state, cur, working, completed, dispatched>>
  BY DEF RunFunctor
<1>2. /\ queue \in Seq(Requests) /\ Len(queue) \in Nat /\ Len(queue) # 0 /\ r = queue[1]
      /\ queue' \in Seq(Requests) /\ Len(queue') = Len(queue) - 1
      /\ \A i \in 1..Len(queue') : queue'[i] = queue[i + 1] /\ i + 1 \in 1..Len(queue) /\ i + 1 # 1
  <2>1. queue \in Seq(Requests)
    BY DEF HttpTypes
  <2> QED
    BY <1>1, <2>1
<1>3. r \in Open /\ r \in completed
  <2>1. 1 \in 1..Len(queue)
    BY <1>2
  <2> QED
    BY <1>2, <2>1 DEF Open, Asynchronous
<1> HIDE DEF r
<1>4. r \in 1..Len(dispatched) /\ r \in Requests /\ r \in 1..Len(kind)
  BY <1>3, OpenFacts
<1>5. /\ responses' \in Seq(Requests) /\ Len(responses) \in Nat /\ Len(responses') \in Nat
      /\ \A i \in 1..Len(responses') :
           \/ i \in 1..Len(responses) /\ responses'[i] = responses[i]
           \/ tcp = "connected" /\ i = Len(responses) + 1 /\ responses'[i] = r
      /\ \A x : Answered(x)' <=> (Answered(x) \/ (tcp = "connected" /\ x = r))
      /\ tcp' \in {"connected", "disconnecting", "closed"}
      /\ tcp' = "closed" <=> tcp = "closed"
      /\ tcp' = "connected" => tcp = "connected"
  BY <1>1, <1>4, RespondFacts
<1>6. hooks \in [Requests -> [before : Nat, after : Seq(Int)]] /\ hooks[r].after = <<>>
  BY <1>3 DEF HttpTypes, Asynchronous
<1>7. /\ hooks' \in [Requests -> [before : Nat, after : Seq(Int)]]
      /\ \A x \in Requests : x # r => hooks'[x] = hooks[x]
      /\ tcp = "connected" => hooks'[r].after = Pairing(hooks'[r].before)
      /\ tcp # "connected" => hooks'[r] = hooks[r]
  <2>1. CASE tcp # "connected"
    BY <1>1, <1>6, <2>1
  <2>2. CASE tcp = "connected"
    <3> DEFINE n == hooks[r].before
    <3>1. PICK failing \in 0..n : hooks' = [hooks EXCEPT ![r].after = @ \o processAfter(n, failing)]
      BY <1>1, <2>2
    <3>2. n \in Nat
      BY <1>4, <1>6
    <3> HIDE DEF n
    <3>3. /\ processAfter(n, failing) = Pairing(n) /\ Pairing(n) \in Seq(Int)
          /\ <<>> \o Pairing(n) = Pairing(n)
      BY <3>2, PairingFacts
    <3>4. hooks' = [hooks EXCEPT ![r].after = Pairing(n)]
      BY <1>4, <1>6, <3>1, <3>3
    <3>5. /\ hooks' \in [Requests -> [before : Nat, after : Seq(Int)]]
          /\ hooks'[r].after = Pairing(n) /\ hooks'[r].before = n
          /\ \A x \in Requests : x # r => hooks'[x] = hooks[x]
      BY <1>4, <1>6, <3>2, <3>3, <3>4 DEF n
    <3> QED
      BY <2>2, <3>5
  <2> QED
    BY <2>1, <2>2
<1>8. HttpTypes'
  BY <1>1, <1>2, <1>5, <1>7 DEF HttpTypes
<1>9. Expected' = Expected /\ Coming' = Coming
  BY <1>1 DEF Expected, Coming
<1>10. Parsing'
  BY <1>1, <1>5, <1>9 DEF Parsing
<1>11. Responding'
  <2>1. ASSUME NEW i \in 1..Len(responses')
        PROVE  /\ responses'[i] \in 1..Len(kind)
               /\ responses'[i] \in 1..Len(dispatched) \/ kind[responses'[i]].bad # "no"
               /\ tcp' = "connected" => responses'[i] \in 1..Len(dispatched)
    <3>1. CASE i \in 1..Len(responses) /\ responses'[i] = responses[i]
      BY <1>5, <3>1 DEF Responding
    <3>2. CASE responses'[i] = r
      BY <1>4, <3>2
    <3> QED
      BY <1>5, <3>1, <3>2
  <2> QED
    BY <1>1, <2>1 DEF Responding
<1>12. \A x \in Open' : x \in Open /\ x # r
  <2>1. ASSUME NEW x \in working \ completed PROVE x \in Open /\ x # r
    BY <1>3, <2>1 DEF Open
  <2>2. ASSUME NEW i \in 1..Len(queue') PROVE queue'[i] \in Open /\ queue'[i] # r
    <3>1. queue'[i] = queue[i + 1] /\ i + 1 \in 1..Len(queue) /\ i + 1 # 1 /\ 1 \in 1..Len(queue)
      BY <1>2
    <3> QED
      BY <1>2, <3>1 DEF Open, Asynchronous
  <2> QED
    BY <1>1, <2>1, <2>2 DEF Open
<1>13. Asynchronous'
  <2>1. \A i \in 1..Len(queue') : queue'[i] \in completed'
    BY <1>1, <1>2 DEF Asynchronous
  <2>2. ASSUME NEW i \in 1..Len(queue'), NEW j \in 1..Len(queue'), i # j
        PROVE  queue'[i] # queue'[j]
    <3>1. i + 1 # j + 1
      BY <1>2, <2>2
    <3> QED
      BY <1>2, <3>1 DEF Asynchronous
  <2>3. ASSUME NEW x \in Open' PROVE ~Answered(x)' /\ hooks'[x].after = <<>>
    <3>1. x \in Open /\ x # r
      BY <1>12
    <3>2. x \in Requests
      BY <3>1, OpenFacts
    <3> QED
      BY <1>5, <1>7, <3>1, <3>2 DEF Asynchronous
  <2> QED
    BY <1>1, <2>1, <2>2, <2>3 DEF Asynchronous
<1>14. Hooked'
  <2>1. ASSUME NEW x \in Requests
        PROVE  /\ x > Len(dispatched) => hooks'[x].after = <<>>
               /\ hooks'[x].after \in {<<>>, Pairing(hooks'[x].before)}
               /\ x <= Len(dispatched) /\ Answered(x)' => hooks'[x].after = Pairing(hooks'[x].before)
    <3>1. CASE x = r /\ tcp = "connected"
      <4>1. ~(x > Len(dispatched))
        BY <1>4, <3>1 DEF HttpTypes
      <4> QED
        BY <1>7, <3>1, <4>1
    <3>2. CASE x # r \/ tcp # "connected"
      <4>1. hooks'[x] = hooks[x]
        BY <1>7, <3>2
      <4> QED
        BY <1>5, <3>2, <4>1 DEF Hooked
    <3> QED
      BY <3>1, <3>2
  <2> QED
    BY <1>1, <2>1 DEF Hooked
<1>15. OrderInv => OrderInv'
  <2> SUFFICES ASSUME OrderInv PROVE OrderInv'
    OBVIOUS
  <2>1. r = Len(kind)
    <3>1. r \notin 1..(Len(kind) - 1)
      BY <1>3 DEF OrderInv, Asynchronous
    <3>2. Len(kind) \in Nat
      BY DEF HttpTypes
    <3> QED
      BY <1>4, <3>1, <3>2
  <2>2. ASSUME NEW i \in 1..Len(responses) PROVE responses[i] < r
    <3>1. responses[i] \in 1..Len(kind)
      BY DEF Responding
    <3>2. responses[i] # r
      <4>1. ~Answered(r) /\ responses \in Seq(Requests)
        BY <1>3 DEF Asynchronous, HttpTypes
      <4> QED
        BY <4>1 DEF Answered, Range
    <3> QED
      BY <2>1, <3>1, <3>2 DEF HttpTypes
  <2>3. ResponsesInOrder'
    BY <1>1, <1>4, <2>2, RespondInOrder DEF OrderInv
  <2> QED
    BY <1>1, <1>5, <1>12, <2>3 DEF OrderInv
<1> QED
  BY <1>8, <1>10, <1>11, <1>13, <1>14, <1>15

\* Every step of the connection preserves both invariants.
LEMMA HttpInvStep ==
  ASSUME HttpInv, [HttpNext]_httpVars
  PROVE  HttpInv' /\ (OrderInv => OrderInv')
<1>1. CASE \E k \in Kinds \cup Alone : sendRequest(k)
  BY <1>1, KindsAssumption, SendStep
<1>2. CASE handleRead
  BY <1>2, ReadStep
<1>3. CASE onMessage
  BY <1>3, MessageStep
<1>4. CASE ParseRequestLine
  BY <1>4, LineStep
<1>5. CASE ParserSpins
  BY <1>5, SpinStep
<1>6. CASE parseHeaders \/ parseBody
  BY <1>6, HeadersStep
<1>7. CASE onRequestSync
  BY <1>7, SyncStep
<1>8. CASE onRequestAsync
  BY <1>8, AsyncStep
<1>9. CASE RunFunctor
  BY <1>9, FunctorStep
<1>10. CASE PeerCloses
  BY <1>10, CloseStep
<1>11. CASE \E r \in Requests : AsyncSend(r) \/ HandlerReturns(r)
  BY <1>11, AnswerStep, ReturnStep
<1>12. CASE UNCHANGED httpVars
  <2>1. UNCHANGED <<kind, net, inbuf, pc, state, cur, tcp, working, completed, queue, dispatched,
                    responses, hooks>>
    BY <1>12 DEF httpVars
  <2>2. HttpTypes'
    BY <2>1 DEF HttpInv, HttpTypes
  <2>3. Expected' = Expected /\ Coming' = Coming
    BY <2>1 DEF Expected, Coming
  <2>4. Parsing'
    BY <2>1, <2>3 DEF HttpInv, Parsing
  <2> QED
    BY <2>1, <2>2, <2>4, ParserOnly
<1> QED
  BY <1>1, <1>2, <1>3, <1>4, <1>5, <1>6, <1>7, <1>8, <1>9, <1>10, <1>11, <1>12
     DEF HttpNext, LoopStep

\* MiddlewareChain::processAfter and its callers: on every connection no request is
\* dispatched twice, and every before() that returned has had its after() once, last
\* one first, when the response goes out, whether it came at once or from a worker.
THEOREM HttpHooksPaired == HttpSpec => []HooksPaired
<1>1. HttpInit => HttpInv
  BY InitHttpInv
<1>2. HttpInv /\ [HttpNext]_httpVars => HttpInv'
  BY HttpInvStep
<1>3. HttpInv => HooksPaired
  <2> SUFFICES ASSUME HttpInv PROVE HooksPaired
    OBVIOUS
  <2> USE DEF HttpInv
  <2>1. /\ DOMAIN dispatched = 1..Len(dispatched) /\ Len(dispatched) \in Nat
        /\ \A i \in 1..Len(dispatched) : dispatched[i] = i
    BY DEF HttpTypes, Parsing
  <2>2. IsInjective(dispatched)
    BY <2>1 DEF IsInjective
  <2>3. ASSUME NEW r \in Range(dispatched)
        PROVE  /\ Answered(r) => hooks[r].after = Pairing(hooks[r].before)
               /\ hooks[r].after \in {<<>>, Pairing(hooks[r].before)}
    <3>1. r \in 1..Len(dispatched)
      BY <2>1, <2>3 DEF Range
    <3>2. r \in Requests /\ r <= Len(dispatched)
      <4>1. Len(kind) \in Nat /\ Len(kind) <= MaxRequests /\ Len(dispatched) <= Len(kind)
        BY DEF HttpTypes, Parsing
      <4> QED
        BY <2>1, <3>1, <4>1, MaxRequestsAssumption DEF Requests
    <3> QED
      BY <3>2 DEF Hooked
  <2> QED
    BY <2>2, <2>3 DEF HooksPaired, Pairing
<1> QED
  BY <1>1, <1>2, <1>3, PTL DEF HttpSpec

\* HttpServer::onMessage and the asynchronous responses: a client that pipelines only
\* behind requests answered at once gets its responses in the order of its requests,
\* at most one for each.
THEOREM HttpResponsesInOrder == HttpSpec => []ResponsesInOrder
<1>1. HttpInit => HttpInv /\ OrderInv
  BY InitHttpInv
<1>2. (HttpInv /\ OrderInv) /\ [HttpNext]_httpVars => (HttpInv /\ OrderInv)'
  BY HttpInvStep
<1>3. HttpInv /\ OrderInv => ResponsesInOrder
  BY DEF OrderInv
<1> QED
  BY <1>1, <1>2, <1>3, PTL DEF HttpSpec

\* AuthMiddleware::before and Router::route: whatever request reaches the dispatcher,
\* of whatever path, the middleware, which repeats the routes as tests of the path,
\* lets it pass exactly if the handler that the router finds for it has its token; no
\* route hides another, and Allow names the methods there are.
THEOREM HttpRoutesGuarded == HttpSpec => []RoutesGuarded
<1>1. HttpInit => HttpInv
  BY InitHttpInv
<1>2. HttpInv /\ [HttpNext]_httpVars => HttpInv'
  BY HttpInvStep
<1>3. HttpInv => RoutesGuarded
  <2>1. SUFFICES ASSUME HttpInv, pc = "dispatch" PROVE Guarded(kind[cur].q)
    BY DEF RoutesGuarded
  <2>2. cur \in 1..Len(kind)
    BY <2>1, DispatchFacts
  <2>3. kind[cur] \in AllKinds
    BY <2>1, <2>2 DEF HttpInv, HttpTypes
  <2>4. kind[cur].q \in Targets
    BY <2>3 DEF AllKinds
  <2> QED
    BY <2>4, AllGuarded
<1> QED
  BY <1>1, <1>2, <1>3, PTL DEF HttpSpec
=============================================================================
