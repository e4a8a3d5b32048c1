----------------------------- MODULE HelperWire ------------------------------
(***************************************************************************)
(* What goes between the command, the service and the helper: frames on a  *)
(* stream, numbers as bytes, and the arithmetic of the handshake that      *)
(* gives both ends one key. Operators only; the order of the messages is   *)
(* in AuthSession.                                                         *)
(***************************************************************************)
EXTENDS Reading

CONSTANTS
    MaxFrameLen,    \* MAX_FRAME_LEN
    GroupPrime,
    GroupGenerator

------------------------------------------------------------------------------
(* Frames: the native byte order is the same at both ends. *)

WriteFrame(body) == IF Len(body) > MaxFrameLen THEN Failed ELSE Number(Len(body)) \o body

\* A variant for the runs: a stream that ends inside a body gives what there is of it.
ReadFrameShort(stream, at) ==
    LET length == ReadNumber(stream, at)
        next == length.next + length.value
        end == IF next > Len(stream) + 1 THEN Len(stream) + 1 ELSE next
    IN  CASE length = Failed -> [says |-> "closed"]
          [] length # Failed /\ length.value > MaxFrameLen -> [says |-> "error"]
          [] OTHER -> [says |-> "frame", value |-> SubSeq(stream, length.next, end - 1),
                       next |-> end]

\* `read_frame': a stream that ends before or inside a length has been closed; one that
\* ends inside a body is an error.
ReadFrame(stream, at) ==
    LET length == ReadNumber(stream, at)
        body == ReadBytes(stream, length.next, length.value)
    IN  CASE length = Failed -> [says |-> "closed"]
          [] length # Failed /\ (length.value > MaxFrameLen \/ body = Failed) ->
                 [says |-> "error"]
          [] OTHER -> [says |-> "frame", value |-> body.value, next |-> body.next]

\* What a reader of a whole stream gets: the frames, and how they end.
ReadStream(stream) ==
    LET Rest[at \in 1..(Len(stream) + 1)] ==
            LET frame == ReadFrame(stream, at)
            IN  IF frame.says # "frame" THEN [frames |-> <<>>, end |-> frame.says]
                ELSE LET rest == Rest[frame.next]
                     IN  [rest EXCEPT !.frames = <<frame.value>> \o @]
    IN  Rest[1]

------------------------------------------------------------------------------
(* Numbers as bytes. *)

\* `to_bytes_be': as few bytes as will do, none for zero.
ToBytes(n) ==
    LET digits == CHOOSE d \in 0..4 : n < 256 ^ d /\ (d = 0 \/ n >= 256 ^ (d - 1))
    IN  [i \in 1..digits |-> (n \div 256 ^ (digits - i)) % 256]

FromBytes(bytes) == FoldLeft(LAMBDA n, b : 256 * n + b, 0, bytes)

\* `pad_left': bytes that are too many lose their last ones.
PadLeft(bytes, length) ==
    IF Len(bytes) <= length THEN Zeros(length - Len(bytes)) \o bytes
    ELSE SubSeq(bytes, 1, length)

\* `aes_key': the first bytes of a shared key, if it has as many.
AesKey(sharedKey, length) ==
    IF Len(ToBytes(sharedKey)) < length THEN Failed ELSE SubSeq(ToBytes(sharedKey), 1, length)

------------------------------------------------------------------------------
(* The handshake. The numbers x, u and k are hashes of what both ends know, and may be any *)
(* numbers here.                                                                           *)

Power(base, exponent) ==
    LET p[n \in 0..exponent] == IF n = 0 THEN 1 % GroupPrime
                                ELSE (p[n - 1] * (base % GroupPrime)) % GroupPrime
    IN  p[exponent]

ClientPublic(a) == Power(GroupGenerator, a)
Verifier(x) == Power(GroupGenerator, x)

ServerPublic(b, x, k) == (k * Verifier(x) + Power(GroupGenerator, b)) % GroupPrime

\* A public number that is a multiple of the prime is refused by whoever receives it.
Refused(public) == public % GroupPrime = 0

\* A variant for the runs: a difference that would be negative is zero.
ClientSecretClipped(a, serverPublic, x, u, k) ==
    LET taken == (k * Power(GroupGenerator, x)) % GroupPrime
        base == IF serverPublic < taken THEN 0 ELSE serverPublic - taken
    IN  Power(base, a + u * x)

\* `SrpSession::derive_shared_key': the prime is added before the subtraction.
ClientSecret(a, serverPublic, x, u, k) ==
    LET taken == (k * Power(GroupGenerator, x)) % GroupPrime
        base == ((GroupPrime + serverPublic) - taken) % GroupPrime
    IN  Power(base, a + u * x)

\* `SrpServer::derive_shared_key'
ServerSecret(b, clientPublic, x, u) ==
    Power((clientPublic * Power(Verifier(x), u)) % GroupPrime, b)

------------------------------------------------------------------------------
(* What the two ends promise each other. *)

\* The frames of the bodies that are not too long.
Sent(bodies) ==
    SelectSeq([i \in DOMAIN bodies |-> WriteFrame(bodies[i])], LAMBDA w : w # Failed)

\* Frames that were written come out whole and in order, as far as the stream goes; it
\* ends in an error just when it ends inside a body.
FramesArrive(bodies, cut) ==
    LET stream == SubSeq(Joined(Sent(bodies)), 1, cut)
        read == ReadStream(stream)
        left == cut - TotalOf([i \in DOMAIN read.frames |-> 4 + Len(read.frames[i])])
    IN  /\ IsPrefix([i \in DOMAIN read.frames |-> WriteFrame(read.frames[i])], Sent(bodies))
        /\ read.end = IF left < 4 THEN "closed" ELSE "error"
        /\ left > 0 => Len(read.frames) < Len(Sent(bodies))
                         /\ left < Len(Sent(bodies)[Len(read.frames) + 1])

\* A number comes back from its bytes, shortest or padded, and two numbers that are padded
\* to one length differ as bytes.
NumberReturns(n, other, length) ==
    /\ FromBytes(ToBytes(n)) = n
    /\ Len(ToBytes(n)) <= length =>
           /\ Len(PadLeft(ToBytes(n), length)) = length
           /\ FromBytes(PadLeft(ToBytes(n), length)) = n
    /\ n # other /\ Len(ToBytes(n)) <= length /\ Len(ToBytes(other)) <= length =>
           PadLeft(ToBytes(n), length) # PadLeft(ToBytes(other), length)
    /\ AesKey(n, length) = Failed <=> Len(ToBytes(n)) < length

\* Both ends have one secret, whatever they have chosen, unless one refuses the other.
SecretsAgree(a, b, x, u, k) ==
    /\ ~Refused(ClientPublic(a))
    /\ ~Refused(ServerPublic(b, x, k)) =>
           ClientSecret(a, ServerPublic(b, x, k), x, u, k) =
           ServerSecret(b, ClientPublic(a), x, u)
=============================================================================
