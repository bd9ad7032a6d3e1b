----------------------------- MODULE LengthHeader -----------------------------
(***************************************************************************)
(* The length in front of a message, from the client's writeInt to the int *)
(* that the servers take it for: readn collects its bytes as they come, in *)
(* network order, and Tool::swap_endian turns them round, byte by byte, on *)
(* a little-endian machine. A byte has ByteBase values (256).              *)
(***************************************************************************)
EXTENDS Readn

CONSTANTS
  ByteBase,
  Lengths      (* ints a client may write                                 *)

Width == 4                               (* sizeof(int) and sizeof(buf)   *)
Place == <<1, ByteBase, ByteBase * ByteBase, ByteBase * ByteBase * ByteBase>>
Wrap == ByteBase * Place[Width]

ASSUME LengthHeaderAssumption ==
  /\ ByteBase \in Nat /\ ByteBase > 1 /\ ByteBase % 2 = 0
  /\ \A v \in Lengths : v \in -(Wrap \div 2) .. Wrap \div 2 - 1

VARIABLES
  written,     (* the client's int                                        *)
  ret,         (* bytes of the local variable ret of swap_endian          *)
  index        (* the loop's i                                            *)

headerVars == <<written, ret, index>>

\* writeInt: the high byte first.
Byte(p) == ((written % Wrap) \div Place[Width + 1 - p]) % ByteBase

HeaderInit ==
  /\ Init
  /\ written \in Lengths
  /\ ret = [k \in 0 .. Width - 1 |-> 0]
  /\ index = Width - 1

\* *(tmp + i) = *in++, where in went up as i came down.
InUnmoved == index
In == Width - 1 - index

SwapByte ==
  /\ pc = "done" /\ result = "true" /\ len = Width
  /\ index >= 0
  /\ ret' = [ret EXCEPT ![index] = Byte(buf[In])]
  /\ index' = index - 1
  /\ UNCHANGED <<vars, written>>

\* The int whose bytes lie in memory, the low one first.
IntIn(bytes) ==
  LET n == bytes[0] + ByteBase * (bytes[1] + ByteBase * (bytes[2] + ByteBase * bytes[3]))
  IN  IF n < Wrap \div 2 THEN n ELSE n - Wrap

HeaderNext ==
  \/ Next /\ UNCHANGED headerVars
  \/ SwapByte

HeaderSpec == HeaderInit /\ [][HeaderNext]_<<vars, headerVars>> /\ WF_vars(Reader)

-----------------------------------------------------------------------------
\* The server takes the header for the number the client wrote, negative ones
\* included, in however many pieces it came and with the message behind it.
HeaderIsTheLength == index < 0 => IntIn(ret) = written
=============================================================================
