------------------------------ MODULE PpfsLink ------------------------------
(***************************************************************************)
(* The parallel port file system of loadcepc: a call of ppfs.c writes one  *)
(* request and reads one reply through mdppfs.c, byte after byte.  The     *)
(* host that answers is external.  The cable may be pulled at any byte, a  *)
(* byte of a message may be damaged, the host may fall silent.             *)
(*                                                                         *)
(* A symbol stands for a field of a reply: bytes count modulo Byte, and    *)
(* Sig, StopSig and Echo are 0xaa5555aa, 0x1a0aa55a and a lone 0x1A.  A reply *)
(* is Sig, opcode, length, value, data, sum, StopSig; read_end wants the      *)
(* plain sum, not its complement as a request carries it.  Data is assumed *)
(* never to spell StopSig.                                                    *)
(***************************************************************************)
EXTENDS Integers, Sequences

CONSTANTS
  Byte,        \* symbols of messages count modulo Byte
  Replies,     \* fixed-length calls: opcode -> values the host may answer
  SearchOps,       \* opcodes of rfindfirst and rfindnext
  ReadOp,      \* opcode of rread
  ErrorBit,    \* added to the opcode when the host saw a damaged request
  Overhead,    \* 9: what the length of a reply counts besides its data
  File,        \* content of the host's file
  Counts,      \* lengths passed to rread
  ReadLimit,       \* 32 KB: what one rreadshort asks for at most
  MaxFaults    \* bound: damaged symbols

Ops == DOMAIN Replies \cup SearchOps \cup {ReadOp}
FF == Byte - 1            \* a field of 0xFF bytes; as a value it is -1
Sig == Byte
StopSig == Byte + 1
Echo == Byte + 2
Least(a, b) == IF a <= b THEN a ELSE b

ASSUME LinkAssumption ==
  /\ {Byte, ReadLimit} \subseteq Nat \ {0} /\ MaxFaults \in Nat
  /\ \A o \in Ops : {o, o + ErrorBit} \subseteq 0 .. (FF - 1) /\ o + ErrorBit \notin Ops
  /\ \A o \in DOMAIN Replies : Replies[o] \subseteq 0 .. FF
  /\ ReadOp \notin SearchOps \cup DOMAIN Replies /\ SearchOps \cap DOMAIN Replies = {}
  /\ File \in Seq(0 .. FF) /\ Overhead \in Nat /\ Len(File) + Overhead < FF
  /\ Counts \subseteq Nat \ {0}

VARIABLES
  pc,        \* "idle", "send", the field of the reply that is read next, or
             \*   "wild": the caller's buffer was written past its end
  op,        \* the call in progress
  cnt, done, \* rread: bytes still to ask for, bytes returned so far (result2)
  noPPFS, lastWrite,   \* NoPPFS, bLastOpWasWrite
  chksum, size, result,\* locals of the call
  buf,       \* what read_data stored, from the start of this chunk
  total,     \* rread: what the chunks before left in the caller's buffer
  ret,       \* what the last call returned
  linked,    \* the cable is in place and the host's side powers it
  line,      \* symbols the host has put up for reading
  pending,   \* the host has a request to answer
  pos,       \* the host's position in the file
  start,     \* history: pos when the call began
  answer,    \* history: what the host answered last: [value, data]
  hurt,      \* history: this call met damage or a lost cable
  faults

linkVars == <<pc, op, cnt, done, noPPFS, lastWrite, chksum, size, result, buf,
          total, ret, linked, line, pending, pos, start, answer, hurt, faults>>
caller == <<op, cnt, done, total, start>>
locals == <<chksum, size, result, buf>>
hostSide == <<pending, pos, answer, faults>>
NoAnswer == [value |-> FF, data |-> <<>>]

LinkInit ==
  /\ pc = "idle" /\ op \in SearchOps /\ cnt = 0 /\ done = 0
  /\ noPPFS = FALSE /\ lastWrite = FALSE
  /\ chksum = 0 /\ size = 0 /\ result = 0 /\ buf = <<>> /\ total = <<>>
  /\ ret = 0 /\ linked = TRUE /\ line = <<>> /\ pending = FALSE /\ pos = 0
  /\ start = 0 /\ answer = NoAnswer /\ hurt = FALSE /\ faults = 0

-----------------------------------------------------------------------------
(* A call begins; with NoPPFS set every one of them returns -1 at once.    *)
Refuse ==
  /\ pc = "idle" /\ noPPFS
  /\ ret' = FF
  /\ UNCHANGED <<pc, caller, noPPFS, lastWrite, locals, linked, line,
                 hostSide, hurt>>

Call(o, n) ==
  /\ pc = "idle" /\ ~noPPFS
  /\ pc' = "send" /\ op' = o /\ cnt' = n /\ done' = 0
  /\ total' = <<>> /\ start' = pos
  /\ hurt' = ~linked /\ answer' = NoAnswer /\ ret' = 0
  /\ UNCHANGED <<noPPFS, lastWrite, locals, linked, line, pending, pos, faults>>

Asked == Least(cnt, ReadLimit)

(* write_header .. write_end.  What a failed call has not read of a reply  *)
(* is assumed to be given up by the host when the next request comes.      *)
SendRequest ==
  /\ pc = "send" /\ linked
  /\ pc' = "sig" /\ pending' = TRUE /\ lastWrite' = TRUE /\ line' = <<>>
  /\ UNCHANGED <<caller, noPPFS, locals, ret, linked, pos, answer, faults, hurt>>

(* Without a host WaitForStatus sets NoPPFS; the call reads its reply all  *)
(* the same.                                                               *)
SendFails ==
  /\ pc = "send" /\ ~linked
  /\ pc' = "sig" /\ noPPFS' = TRUE
  /\ UNCHANGED <<caller, lastWrite, locals, ret, linked, line, hostSide, hurt>>

-----------------------------------------------------------------------------
(* The host (external) and the cable                                       *)
SumTo(s) ==
  LET sum[i \in 0 .. Len(s)] == IF i = 0 THEN 0 ELSE (sum[i - 1] + s[i]) % Byte
  IN  sum
Sum(s) == SumTo(s)[Len(s)]
Reply(o, a) ==
  LET body == <<o, Len(a.data) + Overhead, a.value>> \o a.data
  IN  <<Sig>> \o body \o <<Sum(body), StopSig>>

Answers ==
  IF op = ReadOp
  THEN LET n == Least(Asked, Len(File) - pos)
       IN  {[value |-> n, data |-> SubSeq(File, pos + 1, pos + n)]}
  ELSE IF op \in SearchOps
  THEN {[value |-> 0, data |-> <<>>], [value |-> 1, data |-> <<1>>]}
  ELSE {[value |-> v, data |-> <<>>] : v \in Replies[op]}

(* One byte of a message damaged: a field changes to another value, which  *)
(* always changes the sum; a signature is no longer one.                   *)
Instead(b) == IF b <= FF THEN 0 .. FF ELSE {FF, Echo}
Damaged(s) ==
  UNION {{[s EXCEPT ![i] = b] : b \in Instead(s[i]) \ {s[i]}} : i \in 1 .. Len(s)}
Open == CHOOSE o \in DOMAIN Replies : \A p \in DOMAIN Replies : o <= p

(* Sometimes the last byte the host was sent comes back first.             *)
PutUp(s) == \E e \in {<<>>, <<Echo>>} : line' = e \o s

HostAnswers ==
  /\ pending /\ linked /\ pending' = FALSE
  /\ \E a \in Answers :
       /\ answer' = a
       /\ pos' = IF op = ReadOp THEN pos + a.value
                 ELSE IF op = Open THEN 0 ELSE pos
       /\ \/ PutUp(Reply(op, a)) /\ UNCHANGED <<hurt, faults>>
          \/ /\ faults < MaxFaults /\ faults' = faults + 1 /\ hurt' = TRUE
             /\ \E s \in Damaged(Reply(op, a)) : PutUp(s)
  /\ UNCHANGED <<pc, caller, noPPFS, lastWrite, locals, ret, linked>>

(* The request came damaged: its opcode returns with bit 15 set.           *)
HostRejects ==
  /\ pending /\ linked /\ pending' = FALSE
  /\ faults < MaxFaults /\ faults' = faults + 1 /\ hurt' = TRUE
  /\ answer' = NoAnswer
  /\ PutUp(Reply(op + ErrorBit, NoAnswer))
  /\ UNCHANGED <<pc, caller, noPPFS, lastWrite, locals, ret, linked, pos>>

Disconnect ==
  /\ linked /\ linked' = FALSE /\ hurt' = TRUE
  /\ UNCHANGED <<pc, caller, noPPFS, lastWrite, locals, ret, line, hostSide>>

-----------------------------------------------------------------------------
(* OEMParallelPortGetByte.  While the host is there and has nothing to     *)
(* say it waits: WaitForStatus would time out by CurMSec, which nothing in *)
(* the program ever advances.                                              *)
Dead == noPPFS \/ ~linked
IsEcho == lastWrite /\ line # <<>> /\ Head(line) = Echo
HeardWaiting ==             \* bug: the host's absence is not looked at
  IF noPPFS THEN {FF} ELSE IF line = <<>> \/ IsEcho THEN {} ELSE {Head(line)}
Heard ==
  IF Dead THEN {FF} ELSE IF line = <<>> \/ IsEcho THEN {} ELSE {Head(line)}

Took ==
  /\ noPPFS' = Dead
  /\ lastWrite' = (lastWrite /\ Dead)
  /\ line' = IF Dead THEN line ELSE SubSeq(line, 2, Len(line))

SkipEcho ==
  /\ pc \notin {"idle", "send", "wild"} /\ ~Dead /\ IsEcho
  /\ lastWrite' = FALSE /\ line' = Tail(line)
  /\ UNCHANGED <<pc, caller, noPPFS, locals, ret, linked, hostSide, hurt>>

Receives(field) ==
  /\ pc = field /\ Took
  /\ UNCHANGED <<linked, hostSide, hurt>>

(* The call returns; its locals and the caller's buffer are gone.          *)
Leaves(value) ==
  /\ pc' = "idle" /\ ret' = value
  /\ chksum' = 0 /\ size' = 0 /\ result' = 0 /\ buf' = <<>>
  /\ cnt' = 0 /\ done' = 0 /\ total' = <<>> /\ start' = 0 /\ op' = op

(* It gives up, and whatever was not read stays on the line.               *)
Fails == Leaves(FF)

(* read_header: the signature, then opcode and length in one value.        *)
ReadSig ==
  /\ Receives("sig")
  /\ \E s \in Heard :
       IF s # Sig THEN Fails
       ELSE pc' = "op" /\ UNCHANGED <<caller, locals, ret>>

ReadOpcode ==
  /\ Receives("op")
  /\ \E s \in Heard : chksum' = s % Byte /\ result' = s
  /\ pc' = "len"
  /\ UNCHANGED <<caller, size, buf, ret>>

(* A call without data in its reply wants the exact header.               *)
HeaderFits(o, n) == o = op /\ (op \in DOMAIN Replies => n = Overhead)

ReadLen ==
  /\ Receives("len")
  /\ \E s \in Heard :
       IF ~HeaderFits(result, s) THEN Fails
       ELSE /\ size' = s - Overhead /\ chksum' = (chksum + s) % Byte
            /\ pc' = "value"
            /\ UNCHANGED <<caller, result, buf, ret>>

ReadValue ==
  /\ Receives("value")
  /\ \E s \in Heard : chksum' = (chksum + s) % Byte /\ result' = s
  /\ pc' = IF size = 0 THEN "sum" ELSE "data"
  /\ UNCHANGED <<caller, size, buf, ret>>

(* read_data has no bound but the length the reply gave: a damaged length, *)
(* or the 0xFFFF of a cable pulled before it, or one below the overhead,   *)
(* runs past the caller's buffer.                                          *)
Capacity == IF op = ReadOp THEN cnt ELSE 1

ReadData ==
  /\ Receives("data")
  /\ \E s \in Heard :
       IF Len(buf) = Capacity
       THEN pc' = "wild" /\ UNCHANGED <<chksum, buf>>
       ELSE /\ buf' = Append(buf, s) /\ chksum' = (chksum + s) % Byte
            /\ pc' = IF Len(buf) + 1 = size THEN "sum" ELSE "data"
  /\ UNCHANGED <<caller, size, result, ret>>

(* read_end: the sum first; if it is wrong the stop signature stays unread.*)
SumFitsAny(s) == TRUE          \* bug: the sum is not compared
SumFits(s) == s = chksum

ReadSum ==
  /\ Receives("sum")
  /\ \E s \in Heard :
       IF ~SumFits(s) THEN Fails
       ELSE pc' = "stop" /\ UNCHANGED <<caller, locals, ret>>

StopFits(s) == s = StopSig

ReadStopFails ==
  /\ Receives("stop")
  /\ \E s \in Heard : ~StopFits(s)
  /\ Fails

Returns ==
  /\ Receives("stop") /\ op # ReadOp
  /\ \E s \in Heard : StopFits(s)
  /\ Leaves(result)

(* rread goes on in chunks, each placed behind the room of the last one,   *)
(* however little that one held.                                           *)
Gap(n) == [i \in 1 .. n |-> -1]

ChunkDone ==
  /\ Receives("stop") /\ op = ReadOp
  /\ \E s \in Heard : StopFits(s)
  /\ IF result = FF THEN Fails
     ELSE IF cnt = Asked THEN Leaves(done + result)
     ELSE /\ pc' = "send"
          /\ done' = done + result /\ cnt' = cnt - Asked
          /\ total' = total \o buf \o Gap(Asked - Len(buf))
          /\ buf' = <<>>
          /\ UNCHANGED <<op, start, chksum, size, result, ret>>

-----------------------------------------------------------------------------
CallStep ==
  \/ SendRequest \/ SendFails \/ SkipEcho
  \/ ReadSig \/ ReadOpcode \/ ReadLen \/ ReadValue \/ ReadData \/ ReadSum
  \/ ReadStopFails \/ Returns \/ ChunkDone

LinkNext ==
  \/ Refuse
  \/ \E o \in Ops \ {ReadOp} : Call(o, 0)
  \/ \E n \in Counts : Call(ReadOp, n)
  \/ CallStep
  \/ HostAnswers \/ HostRejects \/ Disconnect

(* The program runs on; nothing is assumed of the host.                    *)
LinkFairness == WF_linkVars(CallStep)
LinkSpec == LinkInit /\ [][LinkNext]_linkVars /\ LinkFairness

-----------------------------------------------------------------------------
(* Properties                                                              *)
Busy == pc \notin {"idle", "wild"}

(* The variables have their types.                                         *)
LinkTypeOK ==
  /\ pc \in {"idle", "send", "sig", "op", "len", "value", "data", "sum",
             "stop", "wild"}
  /\ op \in Ops /\ cnt \in Nat /\ done \in Nat
  /\ noPPFS \in BOOLEAN /\ lastWrite \in BOOLEAN /\ linked \in BOOLEAN
  /\ pending \in BOOLEAN /\ hurt \in BOOLEAN
  /\ chksum \in 0 .. FF /\ size \in Int /\ result \in 0 .. Echo
  /\ ret \in 0 .. Echo
  /\ buf \in Seq(0 .. Echo) /\ total \in Seq(-1 .. Echo) /\ line \in Seq(0 .. Echo)
  /\ pos \in 0 .. Len(File) /\ start \in 0 .. Len(File)
  /\ faults \in 0 .. MaxFaults

(* A call that does not return -1 returns what the host answered to it,    *)
(* and rread the file's next bytes, all of them and no others, whichever   *)
(* byte was damaged or wherever the cable was pulled.  It fails, or leaves *)
(* its buffer, only if something went wrong during this very call, or if   *)
(* the host's answer is -1.  And every variable has its type.              *)
AnswersTrue ==
  /\ []LinkTypeOK
  /\ [][Busy /\ pc' = "idle" /\ ret' # FF =>
       IF op = ReadOp
       THEN /\ pos = start + ret'
            /\ SubSeq(total \o buf, 1, ret') = SubSeq(File, start + 1, pos)
       ELSE ret' = answer.value /\ buf = answer.data]_linkVars
  /\ [][Busy /\ (pc' = "wild" \/ (pc' = "idle" /\ ret' = FF)) =>
         hurt \/ answer.value = FF]_linkVars

(* When the host is gone every call comes to an end.                       *)
LostHostEndsCall == Busy /\ ~linked ~> ~Busy
=============================================================================
