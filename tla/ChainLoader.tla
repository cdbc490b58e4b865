----------------------------- MODULE ChainLoader -----------------------------
(***************************************************************************)
(* A kernel image goes over the serial line: the receiver on the board      *)
(* (imgrecv.c) asks for it, reads a size and the image and starts it; the   *)
(* sender on the host (Main.java) answers and then shows what the kernel    *)
(* prints.  The user may kill and restart the sender and reset the board at *)
(* any moment; bytes nobody listens to are lost.                            *)
(***************************************************************************)
EXTENDS Naturals, Sequences

CONSTANTS
    Files,        \* images the user may send
    FileLen,      \* FileLen[f]: length of f
    Elf,          \* images with an ELF header
    Radix,        \* values of a byte
    MinSize,      \* smallest size the receiver accepts
    LineCap,      \* bytes the line holds on the way to the board
    MaxFaults     \* kills of the sender and resets of the board

SizeBytes == 4
\* Place[k]: what a one in byte k of a size is worth, lowest byte first.
Place == <<1, Radix, Radix * Radix, Radix * Radix * Radix>>
Wrap == Radix * (Radix * Radix * Radix)

ASSUME ChainAssumption ==
    /\ FileLen \in [Files -> Nat]
    /\ Elf \subseteq Files
    /\ Radix \in Nat \ {0, 1}
    /\ MinSize \in 1 .. Wrap \div 4
    /\ LineCap \in Nat \ {0}
    /\ MaxFaults \in Nat

VARIABLES
    board,        \* where the receiver is
    got,          \* digits of the size read so far, lowest first
    left,         \* image bytes to come
    kernel,       \* what has been stored at the load address
    entry,        \* where the image was started: "none", "load" or "header"
    host,         \* where the sender is
    file,         \* the image it was started with
    sent,         \* bytes sent of the size, then of the image
    up,           \* bytes on the way to the board
    down,         \* bytes on the way to the host
    faults,       \* kills and resets so far
    quiet         \* the line was quiet when the receiver last started

boardVars == <<board, got, left, kernel, entry, quiet>>
hostVars == <<host, file, sent>>
vars == <<boardVars, hostVars, up, down, faults>>

Digits == 0 .. Radix - 1

\* A byte of a size, or a byte of an image, whose value may be anything.
SizeByte(d) == [digit |-> d]
ImageByte(f, i) == [file |-> f, at |-> i]
Values(b) == IF "digit" \in DOMAIN b THEN {b.digit} ELSE Digits
Image(f, n) == [i \in 1 .. n |-> ImageByte(f, i)]

\* What the board sends: 3, an answer, or whatever the kernel prints.
BoardBytes == {"3", "S", "E", "O", "K", "text"}

HostOpen == host # "closed"

\* A byte to the host is lost when its port is closed.
Send(bytes) == down' = IF HostOpen THEN down \o bytes ELSE down

Init ==
    /\ board = "off" /\ got = <<>> /\ left = 0 /\ kernel = <<>> /\ entry = "none"
    /\ host = "closed" /\ file \in Files /\ sent = 0
    /\ up = <<>> /\ down = <<>>
    /\ faults = 0 /\ quiet = TRUE

-----------------------------------------------------------------------------
(* The receiver *)

\* UART and pins are set up.
PowerOn ==
    /\ board = "off"
    /\ board' = "ask1"
    /\ got' = <<>> /\ left' = 0 /\ kernel' = <<>> /\ entry' = "none"
    /\ quiet' = (up = <<>> /\ down = <<>> /\ host \in {"closed", "wait", "monitor"})
    /\ UNCHANGED <<hostVars, up, down, faults>>

\* Mutant: two bytes instead of three.
BugAsk ==
    /\ board \in {"ask1", "ask2"}
    /\ Send(<<"3">>)
    /\ board' = IF board = "ask1" THEN "ask2" ELSE "size"
    /\ UNCHANGED <<got, left, kernel, entry, quiet, hostVars, up, faults>>

\* Three bytes 3, one at a time.
Ask ==
    /\ board \in {"ask1", "ask2", "ask3"}
    /\ Send(<<"3">>)
    /\ board' = CASE board = "ask1" -> "ask2" [] board = "ask2" -> "ask3" [] OTHER -> "size"
    /\ UNCHANGED <<got, left, kernel, entry, quiet, hostVars, up, faults>>

ReadSize ==
    /\ board = "size" /\ up # <<>>
    /\ \E d \in Values(Head(up)) : got' = Append(got, d)
    /\ up' = Tail(up)
    /\ board' = IF Len(got) + 1 = SizeBytes THEN "answer" ELSE "size"
    /\ UNCHANGED <<left, kernel, entry, quiet, hostVars, down, faults>>

\* Mutant: the highest byte first.
BugSizeOf(digits) ==
    digits[4] * Place[1] + digits[3] * Place[2] + digits[2] * Place[3] + digits[1] * Place[4]

\* The four bytes as an unsigned number.
SizeOf(digits) ==
    digits[1] * Place[1] + digits[2] * Place[2] + digits[3] * Place[3] + digits[4] * Place[4]

\* As a signed number the upper half is negative, and so too small.
Accepted(n) == n >= MinSize /\ n < Wrap \div 4

\* SE, and all over again.
Refuse ==
    /\ board = "answer" /\ ~ Accepted(SizeOf(got))
    /\ Send(<<"S", "E">>)
    /\ board' = "ask1"
    /\ got' = <<>>
    /\ UNCHANGED <<left, kernel, entry, quiet, hostVars, up, faults>>

\* OK, and on to the image.
Accept ==
    /\ board = "answer" /\ Accepted(SizeOf(got))
    /\ Send(<<"O", "K">>)
    /\ board' = "image"
    /\ left' = SizeOf(got)
    /\ UNCHANGED <<got, kernel, entry, quiet, hostVars, up, faults>>

\* Mutant: the receiver stops one byte early.
BugReadImage ==
    /\ board = "image" /\ up # <<>>
    /\ kernel' = Append(kernel, Head(up))
    /\ up' = Tail(up)
    /\ left' = left - 1
    /\ board' = IF left <= 2 THEN "loaded" ELSE "image"
    /\ UNCHANGED <<got, entry, quiet, hostVars, down, faults>>

ReadImage ==
    /\ board = "image" /\ up # <<>>
    /\ kernel' = Append(kernel, Head(up))
    /\ up' = Tail(up)
    /\ left' = left - 1
    /\ board' = IF left = 1 THEN "loaded" ELSE "image"
    /\ UNCHANGED <<got, entry, quiet, hostVars, down, faults>>

\* An image that starts with an ELF header is entered where the header says.
HasElfHeader == "file" \in DOMAIN Head(kernel) /\ Head(kernel).at = 1 /\ Head(kernel).file \in Elf

StartKernel ==
    /\ board = "loaded"
    /\ board' = "running"
    /\ entry' = IF HasElfHeader THEN "header" ELSE "load"
    /\ UNCHANGED <<got, left, kernel, quiet, hostVars, up, down, faults>>

\* The kernel prints, and takes what arrives as console input.
KernelPrints ==
    /\ board = "running" /\ down = <<>>
    /\ Send(<<"text">>)
    /\ UNCHANGED <<boardVars, hostVars, up, faults>>

KernelReads ==
    /\ board = "running" /\ up # <<>>
    /\ up' = Tail(up)
    /\ UNCHANGED <<boardVars, hostVars, down, faults>>

-----------------------------------------------------------------------------
(* The sender *)

\* main, up to the open port.
Open ==
    /\ host = "closed"
    /\ host' = "wait"
    /\ file' \in Files
    /\ sent' = 0
    /\ UNCHANGED <<boardVars, up, down, faults>>

\* Everything up to the first 3 is skipped.
Wait ==
    /\ host = "wait" /\ down # <<>>
    /\ host' = IF Head(down) = "3" THEN "two" ELSE "wait"
    /\ down' = Tail(down)
    /\ UNCHANGED <<boardVars, file, sent, up, faults>>

\* The sender ends and the port closes.
Close == host' = "closed" /\ down' = <<>>

\* Two more; on anything else the sender ends.
ReadTwo ==
    /\ host = "two" /\ Len(down) >= 2
    /\ \/ /\ SubSeq(down, 1, 2) = <<"3", "3">>
          /\ host' = "size"
          /\ down' = SubSeq(down, 3, Len(down))
       \/ /\ SubSeq(down, 1, 2) # <<"3", "3">>
          /\ Close
    /\ UNCHANGED <<boardVars, file, sent, up, faults>>

\* The low four bytes of the length, lowest first.
SizeDigit(n, k) == (n \div Place[k + 1]) % Radix

SendSize ==
    /\ host = "size" /\ Len(up) < LineCap
    /\ up' = Append(up, SizeByte(SizeDigit(FileLen[file], sent)))
    /\ IF sent + 1 = SizeBytes
       THEN host' = "answer" /\ sent' = 0
       ELSE host' = host /\ sent' = sent + 1
    /\ UNCHANGED <<boardVars, file, down, faults>>

\* Mutant: any answer will do.
BugReadAnswer ==
    /\ host = "answer" /\ Len(down) >= 2
    /\ host' = "upload"
    /\ down' = SubSeq(down, 3, Len(down))
    /\ UNCHANGED <<boardVars, file, sent, up, faults>>

\* The upload follows OK; the sender ends on anything else.
ReadAnswer ==
    /\ host = "answer" /\ Len(down) >= 2
    /\ \/ /\ SubSeq(down, 1, 2) = <<"O", "K">>
          /\ host' = "upload"
          /\ down' = SubSeq(down, 3, Len(down))
       \/ /\ SubSeq(down, 1, 2) # <<"O", "K">>
          /\ Close
    /\ UNCHANGED <<boardVars, file, sent, up, faults>>

Upload ==
    /\ host = "upload" /\ sent < FileLen[file] /\ Len(up) < LineCap
    /\ up' = Append(up, ImageByte(file, sent + 1))
    /\ sent' = sent + 1
    /\ UNCHANGED <<boardVars, host, file, down, faults>>

UploadDone ==
    /\ host = "upload" /\ sent = FileLen[file]
    /\ host' = "monitor"
    /\ UNCHANGED <<boardVars, file, sent, up, down, faults>>

\* What the kernel prints is shown, for ever.
Monitor ==
    /\ host = "monitor" /\ down # <<>>
    /\ down' = Tail(down)
    /\ UNCHANGED <<boardVars, hostVars, up, faults>>

-----------------------------------------------------------------------------
(* Faults *)

Reset ==
    /\ board # "off" /\ faults < MaxFaults
    /\ board' = "off"
    /\ faults' = faults + 1
    /\ UNCHANGED <<got, left, kernel, entry, quiet, hostVars, up, down>>

KillSender ==
    /\ HostOpen /\ faults < MaxFaults
    /\ Close
    /\ faults' = faults + 1
    /\ UNCHANGED <<boardVars, file, sent, up>>

\* A byte reaches a board that is starting.
LoseByte ==
    /\ board = "off" /\ up # <<>>
    /\ up' = Tail(up)
    /\ UNCHANGED <<boardVars, hostVars, down, faults>>

-----------------------------------------------------------------------------

Receiver ==
    \/ PowerOn \/ Ask \/ ReadSize \/ Refuse \/ Accept \/ ReadImage \/ StartKernel
    \/ KernelPrints \/ KernelReads

Sender ==
    \/ Wait \/ ReadTwo \/ SendSize \/ ReadAnswer \/ Upload \/ UploadDone \/ Monitor

Next == Receiver \/ Sender \/ Open \/ Reset \/ KillSender \/ LoseByte

\* Both programs run; nothing is assumed of the user.
FairSpec == Init /\ [][Next]_vars /\ WF_vars(Receiver) /\ WF_vars(Sender)

-----------------------------------------------------------------------------
(* Properties *)

ChainTypeOK ==
    /\ board \in {"off", "ask1", "ask2", "ask3", "size", "answer", "image", "loaded", "running"}
    /\ Len(got) <= SizeBytes /\ \A k \in DOMAIN got : got[k] \in Digits
    /\ left \in 0 .. Wrap - 1
    /\ (board \in {"loaded", "running"}) => left = 0
    /\ entry \in {"none", "load", "header"}
    /\ host \in {"closed", "wait", "two", "size", "answer", "upload", "monitor"}
    /\ file \in Files
    /\ sent \in 0 .. FileLen[file]  \/  sent \in 0 .. SizeBytes
    /\ Len(up) <= LineCap
    /\ \A k \in DOMAIN down : down[k] \in BoardBytes
    /\ faults \in 0 .. MaxFaults
    /\ quiet \in BOOLEAN

\* The kernel that is started is one file, whole and in order, entered where its kind
\* says, however often the sender was killed and restarted, with another file or the
\* same, provided nothing was on its way when the receiver started.  Of a file of 2^32
\* bytes and more it is the part its low four length bytes announce.
BootsOneFile ==
    board = "running" /\ quiet =>
        \E f \in Files :
            /\ kernel = Image(f, FileLen[f] % Wrap)
            /\ entry = IF f \in Elf THEN "header" ELSE "load"

\* While a sender that has read OK is at work, the receiver expects exactly the bytes
\* on the line and the bytes not sent yet: nothing is lost, and neither side waits for
\* a byte the other one will not send.
InStep ==
    quiet /\ board = "image" /\ host \in {"upload", "monitor"} /\ FileLen[file] < Wrap =>
        left = Len(up) + (FileLen[file] - sent)

\* A sender that is waiting when the board is switched on delivers its file, and if the
\* file is too small or too large both learn of it, once the user leaves them alone.
\* (A sender started after the three bytes have gone by waits until the next reset.)
UploadCompletes ==
    \A f \in Files :
        /\ board = "off" /\ host = "wait" /\ file = f /\ up = <<>> /\ down = <<>> /\ faults = MaxFaults
           ~> \/ board = "running" /\ (Accepted(FileLen[f]) => kernel = Image(f, FileLen[f]))
              \/ host = "closed" /\ ~ Accepted(FileLen[f] % Wrap)

=============================================================================
