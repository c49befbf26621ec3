------------------------------ MODULE DedupWire ------------------------------
(***************************************************************************)
(* One connection between assignmen2/client.c and a net_thread of          *)
(* assignmen2/server.c, byte for byte in lengths.                          *)
(*                                                                         *)
(* Nothing on this connection delimits a message.  A client command is     *)
(* always 1024 bytes, of which the server's read() takes at most 500; the  *)
(* rest, zeros, is left for whoever reads next.  Sizes travel in four      *)
(* bytes that strncpy() has filled, up to the first zero byte.  Contents   *)
(* are sent in blocks of 1024 and cut at their first NUL.                  *)
(*                                                                         *)
(* A stream is a sequence of runs of equal bytes.  A send() arrives whole: *)
(* the server binds to 127.0.0.1.  Only the one large send() of a download *)
(* arrives in segments.                                                    *)
(***************************************************************************)
EXTENDS Naturals, Sequences, FiniteSets, FiniteSetsExt

CONSTANTS
  Sizes,     \* lengths of the files a client uploads or the server has
  Counts,    \* numbers of files in the repository when it is listed
  Segment,   \* bytes of a large send() that arrive together
  Pad,       \* bytes without a NUL between buffer[] and the stack's canary
  Patient    \* TRUE: the user types; FALSE: commands come from a pipe

ASSUME WireAssumption ==
  /\ Sizes \subseteq Nat /\ \A s \in Sizes : s < 2147483647    \* an int, with the NUL
  /\ Counts \subseteq Nat /\ \A c \in Counts : c < 65536   \* sent in two bytes
  /\ Segment \in Nat \ {0} /\ Pad \in Nat /\ Patient \in BOOLEAN

VARIABLES
  up, down,  \* the bytes on their way to the server and to the client
  cpc,       \* where client.c stands
  op, sz,    \* its command, and the size of the file it sends
  toSend,    \* bytes of the content not sent yet: `rest', or less than 0
  cx,        \* the client's x: names or bytes still to come
  last,      \* its RecvSize: the length of the previous recv()
  taken,     \* bytes of the download received so far
  inPlace,   \* every piece of the download was stored where it belongs
  heard,     \* what it tells its user
  spc,       \* where net_thread stands
  x,         \* the server's x: bytes it expects
  text,      \* length of the content update() has put together
  said       \* what the server last did for this client

clientVars == <<cpc, op, sz, toSend, cx, last, taken, inPlace, heard>>
serverVars == <<spc, x, text, said>>
vars == <<up, down, clientVars, serverVars>>

Ops == {"list", "update", "download", "delete", "quit"}
Nothing == [tag |-> "none", len |-> 0]
Result(tag, len) == [tag |-> tag, len |-> len]
Results == [tag : {"none", "OK", "SERROR"}, len : Nat]

-----------------------------------------------------------------------------
(* Streams *)

\* n bytes of a kind; v is the number a size field holds, the flag a reply
\* carries, or how many bytes of a content precede its NUL.
Run(what, n, v) == [what |-> what, n |-> n, v |-> v]

Before(s) ==
  LET f[i \in 0 .. Len(s)] == IF i = 0 THEN 0 ELSE f[i - 1] + s[i].n IN f
Bytes(s) == Before(s)[Len(s)]

\* What is left of a run when its first d bytes are gone.
Rest(r, d) ==
  [what |-> IF r.what \in {"zero", "data"} THEN r.what ELSE "junk",
   n |-> r.n - d, v |-> IF r.v > d THEN r.v - d ELSE 0]

\* The stream after a read of at most n bytes.
Cut_Short(s, n) ==     \* mutant: a run read to its end is not left behind
  LET k == Max({i \in 0 .. Len(s) : i = 0 \/ Before(s)[i] < n})
  IN IF k = Len(s) THEN <<>>
     ELSE <<[s[k + 1] EXCEPT !.n = @ - (n - Before(s)[k])]>>
            \o SubSeq(s, k + 2, Len(s))

Cut(s, n) ==
  LET k == Max({i \in 0 .. Len(s) : Before(s)[i] <= n})
      d == n - Before(s)[k]
  IN IF k = Len(s) THEN <<>>
     ELSE IF d = 0 THEN SubSeq(s, k + 1, Len(s))
     ELSE <<Rest(s[k + 1], d)>> \o SubSeq(s, k + 2, Len(s))

ReadLen(s, n) == Min({n, Bytes(s)})

\* The number that strncpy(buffer, a, 4) lets through: num's bytes from the
\* lowest up to the first zero byte.
SizeField_Text(num) == num - 1      \* mutant: the NUL is not counted
SizeField(num) ==
  CASE num % 256 = 0 -> 0
    [] num % 256 # 0 /\ (num \div 256) % 256 = 0 -> num % 256
    [] num % 256 # 0 /\ (num \div 256) % 256 # 0 /\ (num \div 65536) % 256 = 0
         -> num % 65536
    [] OTHER -> num

SizeRun(num) ==
  IF SizeField(num) = 0 THEN Run("zero", 4, 0) ELSE Run("size", 4, SizeField(num))

\* The loops that read a size skip zeros four bytes at a time.
IsSize_Any(r) == TRUE               \* mutant: read() is called once
IsSize(r) == r.what # "zero"

\* What the first four bytes of a content make is some large number.
Large == 1000000000
FieldOf(r) == IF r.what = "size" THEN r.v ELSE Large

\* A content of num bytes, its NUL included, in blocks that arrive together.
Blocks(num, size) ==
  [i \in 1 .. (num + size - 1) \div size |->
     LET left == num - size * (i - 1)
     IN Run("data", Min({size, left}), Min({size, left - 1}))]

\* How far strcat(data, buffer) copies when n bytes have been received: to the
\* first NUL.  Blocks are of 1024, so that n bytes lie in two runs at most.
TextIn_All(s, n) == n               \* mutant: memcpy for strcat
TextIn(s, n) ==
  LET h == Head(s)
  IN IF n <= h.v THEN n
     ELSE IF h.v < h.n \/ Len(s) = 1 THEN h.v
     ELSE h.v + Min({n - h.n, s[2].v})

\* update() has all it expects.
Complete_Exact(left, n) == left = n \* mutant: x == 0 for x <= 0
Complete(left, n) == left <= n \/ n < 1024

-----------------------------------------------------------------------------

Init ==
  /\ up = <<>> /\ down = <<>>
  /\ cpc = "idle" /\ op = "quit" /\ sz = 0 /\ toSend = 0
  /\ cx = 0 /\ last = 0 /\ taken = 0 /\ inPlace = TRUE /\ heard = Nothing
  /\ spc = "read" /\ x = 0 /\ text = 0 /\ said = Nothing

-----------------------------------------------------------------------------
(* client.c *)

\* A line of input, and the first send() it leads to.  A user who types gives
\* the server the time to read what is left of the command before.
Issue ==
  /\ cpc = "idle"
  /\ Patient => up = <<>> /\ spc = "read"
  /\ \E o \in Ops, s \in Sizes :
       /\ op' = o /\ sz' = IF o = "update" THEN s ELSE 0
       /\ up' = up \o <<Run(o, 16, 0), Run("zero", 1008, 0)>>
       /\ cpc' = IF o = "update" THEN "size" ELSE "flag"
  /\ heard' = Nothing
  /\ cx' = 0 /\ last' = 0 /\ taken' = 0 /\ inPlace' = TRUE
  /\ UNCHANGED <<down, toSend, serverVars>>

SendSize ==
  /\ cpc = "size"
  /\ up' = Append(up, SizeRun(sz + 1))
  /\ toSend' = sz + 1 /\ cpc' = "send"
  /\ UNCHANGED <<down, op, sz, cx, last, taken, inPlace, heard, serverVars>>

\* Always 1024 bytes, past the end of the buffer if need be.
SendBlock ==
  /\ cpc = "send"
  /\ up' = Append(up, Run("data", 1024, Min({1024, toSend - 1})))
  /\ IF toSend > 1024 THEN toSend' = toSend - 1024 /\ UNCHANGED cpc
                      ELSE toSend' = 0 /\ cpc' = "flag"
  /\ UNCHANGED <<down, op, sz, cx, last, taken, inPlace, heard, serverVars>>

\* The answers a command waits for; any other is dropped.
Expected ==
  [list |-> "0x01", update |-> "0x03", delete |-> "0x05", download |-> "0x07",
   quit |-> "0x09"]

AfterFlag ==
  [list |-> "count", update |-> "idle", delete |-> "idle", download |-> "field",
   quit |-> "gone"]

ReadFlag ==
  /\ cpc = "flag" /\ down # <<>>
  /\ down' = Cut(down, 5)
  /\ LET r == Head(down)
         isFlag == r.what = "flag" /\ r.n = 5
     IN \/ /\ isFlag /\ r.v = Expected[op]
           /\ cpc' = AfterFlag[op]
           /\ heard' = Result("OK", IF op = "update" THEN sz ELSE 0)
        \/ /\ isFlag /\ r.v = "0xFF" /\ op # "quit"
           /\ cpc' = "idle" /\ heard' = Result("SERROR", 0)
        \/ /\ ~(isFlag /\ (r.v = Expected[op] \/ (r.v = "0xFF" /\ op # "quit")))
           /\ UNCHANGED <<cpc, heard>>
  /\ UNCHANGED <<up, op, sz, toSend, cx, last, taken, inPlace, serverVars>>

\* list: two bytes, and as many names of 1024 bytes.
ReadCount ==
  /\ cpc = "count" /\ down # <<>>
  /\ down' = Cut(down, 2)
  /\ cx' = Head(down).v
  /\ cpc' = IF cx' = 0 THEN "idle" ELSE "names"
  /\ UNCHANGED <<up, op, sz, toSend, last, taken, inPlace, heard, serverVars>>

ReadName ==
  /\ cpc = "names" /\ down # <<>>
  /\ down' = Cut(down, 1024)
  /\ heard' = [heard EXCEPT !.len = @ + 1]
  /\ cx' = cx - 1
  /\ cpc' = IF cx' = 0 THEN "idle" ELSE "names"
  /\ UNCHANGED <<up, op, sz, toSend, last, taken, inPlace, serverVars>>

\* download: the size, and that many bytes, each piece stored at the length of
\* the piece before it.
ReadSize ==
  /\ cpc = "field" /\ down # <<>>
  /\ down' = Cut(down, 4)
  /\ IF IsSize(Head(down))
       THEN cx' = FieldOf(Head(down)) /\ cpc' = "recv"
       ELSE UNCHANGED <<cx, cpc>>
  /\ UNCHANGED <<up, op, sz, toSend, last, taken, inPlace, heard, serverVars>>

\* Where recv() is told to put the next piece: not behind all that came before,
\* but at the length of the piece before it.
Offset(previous) == previous

Recv ==
  /\ cpc = "recv" /\ down # <<>>
  /\ \E n \in {Min({cx, Head(down).n}), ReadLen(down, cx)} :
       /\ down' = Cut(down, n)
       /\ inPlace' = (inPlace /\ Offset(last) = taken)
       /\ last' = n /\ taken' = taken + n /\ cx' = cx - n
  /\ IF cx' = 0 THEN cpc' = "idle" /\ heard' = Result("OK", taken' - 1)
                ELSE UNCHANGED <<cpc, heard>>
  /\ UNCHANGED <<up, op, sz, toSend, serverVars>>

-----------------------------------------------------------------------------
(* server.c *)

Reply(tag, runs, result) ==
  /\ down' = down \o <<Run("flag", 5, tag)>> \o runs
  /\ said' = result

\* read(): what does not begin with a command is dropped.
Serve ==
  /\ spc = "read" /\ up # <<>>
  /\ up' = Cut(up, 500)
  /\ IF Head(up).what \in Ops THEN spc' = Head(up).what /\ said' = Nothing
                              ELSE UNCHANGED <<spc, said>>
  /\ UNCHANGED <<down, clientVars, x, text>>

ServeList ==
  /\ spc = "list"
  /\ \E c \in Counts :
       Reply("0x01", <<Run("count", 2, c)>> \o [i \in 1 .. c |-> Run("name", 1024, 0)],
             Result("OK", c))
  /\ spc' = "read"
  /\ UNCHANGED <<up, clientVars, x, text>>

ServeDelete ==
  /\ spc = "delete"
  /\ \/ Reply("0x05", <<>>, Result("OK", 0))
     \/ Reply("0xFF", <<>>, Result("SERROR", 0))
  /\ spc' = "read"
  /\ UNCHANGED <<up, clientVars, x, text>>

ServeDownload ==
  /\ spc = "download"
  /\ \/ \E s \in Sizes :
          Reply("0x07", <<SizeRun(s + 1)>> \o Blocks(s + 1, Segment), Result("OK", s))
     \/ Reply("0xFF", <<>>, Result("SERROR", 0))
  /\ spc' = "read"
  /\ UNCHANGED <<up, clientVars, x, text>>

ServeQuit ==
  /\ spc = "quit"
  /\ Reply("0x09", <<>>, Result("OK", 0))
  /\ spc' = "closed"
  /\ UNCHANGED <<up, clientVars, x, text>>

\* update(): the size, past the zeros the command ended with.
ServeSize ==
  /\ spc = "update" /\ up # <<>>
  /\ up' = Cut(up, 4)
  /\ IF IsSize(Head(up))
       THEN x' = FieldOf(Head(up)) /\ spc' = "body"
       ELSE UNCHANGED <<x, spc>>
  /\ UNCHANGED <<down, clientVars, text, said>>

\* update(): the content.  A full buffer without a NUL lets strcat() run into
\* what lies behind it.
ServeBlock ==
  /\ spc = "body" /\ up # <<>>
  /\ LET n == ReadLen(up, 1024)
         t == TextIn(up, n)
     IN /\ up' = Cut(up, n)
        /\ \E p \in IF t = 1024 THEN {0, Pad} ELSE {0} : text' = text + t + p
        /\ x' = IF x > n THEN x - n ELSE 0
        /\ spc' = IF Complete(x, n) THEN "stored" ELSE "body"
  /\ UNCHANGED <<down, clientVars, said>>

ServeUpdate ==
  /\ spc = "stored"
  /\ \/ Reply("0x03", <<>>, Result("OK", text))
     \/ Reply("0xFF", <<>>, Result("SERROR", 0))
  /\ spc' = "read" /\ x' = 0 /\ text' = 0
  /\ UNCHANGED <<up, clientVars>>

-----------------------------------------------------------------------------

Client == \/ SendSize \/ SendBlock \/ ReadFlag \/ ReadCount \/ ReadName
          \/ ReadSize \/ Recv

Server == \/ Serve \/ ServeList \/ ServeDelete \/ ServeDownload \/ ServeQuit
          \/ ServeSize \/ ServeBlock \/ ServeUpdate

Next == Issue \/ Client \/ Server

Spec == Init /\ [][Next]_vars

\* Both programs go on when they can; the user need not.
FairSpec == Spec /\ WF_vars(Client) /\ WF_vars(Server)

-----------------------------------------------------------------------------
(* Properties *)

Waiting == {"flag", "count", "names", "field", "recv"}

\* Each side stands at one of its calls, and the numbers they count with stay
\* within what was sent.
TypeOK ==
  /\ \A s \in {up, down} : \A i \in DOMAIN s : s[i].n > 0
  /\ cpc \in Waiting \cup {"idle", "size", "send", "gone"} /\ op \in Ops
  /\ sz \in Sizes \cup {0} /\ toSend \in Nat /\ cx \in Nat
  /\ last \in Nat /\ taken \in Nat /\ inPlace \in BOOLEAN
  /\ heard \in Results /\ said \in Results
  /\ spc \in Ops \cup {"read", "body", "stored", "closed"}
  /\ x \in Nat /\ text \in Nat

\* A command gets an answer: it never comes to client and server both reading,
\* with nothing on its way.
NoStall ==
  ~(cpc \in Waiting /\ spc \in {"read", "update", "body"} /\ up = <<>> /\ down = <<>>)

\* Between commands nothing that could be taken for a command, a size or an
\* answer is left on the way: at most the zeros the last command ended with.
Aligned ==
  cpc = "idle" /\ spc = "read" =>
    down = <<>> /\ \A i \in DOMAIN up : up[i].what = "zero"

\* What the client tells its user is what the server did: the result, the number
\* of names, the length of the content, if it is shorter than one buffer.
Faithful ==
  cpc = "idle" =>
    /\ heard.tag = said.tag
    /\ op # "update" \/ sz < 1024 => heard.len = said.len

\* client.c:338, "then wait the content coming", and 351, "rewrite the file": when
\* the client prints OK, every piece of the content is where it belongs.
DownloadInPlace ==
  cpc = "idle" /\ op = "download" /\ heard.tag = "OK" => inPlace

\* server.c:501, "recieve the size of file": update() stores as many bytes as the
\* client's file has, if that is less than one buffer.
UploadWhole == spc = "stored" /\ sz < 1024 => text = sz

\* Every command is answered in the end.
Answered == cpc # "idle" ~> cpc \in {"idle", "gone"}

=============================================================================
