------------------------------ MODULE SdParser ------------------------------
(***************************************************************************)
(* sd_parse of MCU/src/someip_sd.cpp, iteration by iteration, on any       *)
(* datagram, and parse_sd of mpu/someip/sd.py on the same datagram.        *)
(*                                                                         *)
(* A datagram is what the parsers branch on: its size, whether its ids and *)
(* its message type are those of SD, its two length fields, and for each   *)
(* option the length and type fields that begin it.  All other bytes are   *)
(* copied, so only the positions that are read matter.  The blocks of      *)
(* options are chosen as the C loop reaches them.                          *)
(***************************************************************************)
EXTENDS Naturals, Sequences

CONSTANTS
  Sizes,        \* sizes of a datagram
  LengthFields, \* values of entries_len and options_len
  BlockLengths, \* values of an option's length field
  Types,        \* values of an option's type field
  SIZE_MOD      \* 2^w for the w-bit size_t and uint32_t of the MCU

IP4_ENDPOINT == 4
IP4_MULTICAST == 20
HDR_SIZE == 24
ENTRY_SIZE == 16
IP4_OPTION_SIZE == 12
SD_MAX_ENTRIES == 4
SD_MAX_OPTIONS == 4

ASSUME ParserAssumption ==
  /\ SIZE_MOD \in Nat /\ SIZE_MOD > HDR_SIZE + SD_MAX_ENTRIES * ENTRY_SIZE + 4
  /\ Sizes \subseteq 0..(SIZE_MOD - 1)
  /\ LengthFields \subseteq 0..(SIZE_MOD - 1)
  /\ BlockLengths \subseteq Nat
  /\ \A l \in BlockLengths : 3 + l < SIZE_MOD
  /\ Types \subseteq 0..255

VARIABLES
  len,                      \* size of the datagram
  ids, notification,        \* 0xFFFF/0x8100, and message type 2
  entries_len, options_len, \* its length fields
  pc,                       \* "check", "entries", "options", "ok", "bad"
  off,                      \* entries parsed so far, in bytes
  i, opt_off,               \* the option loop
  slots,                    \* history: which of out->options were written
  blocks,                   \* history: the option blocks the loop has seen
  reach                     \* history: one past the last byte read

datagram == <<len, ids, notification, entries_len, options_len>>
parserVars == <<datagram, pc, off, i, opt_off, slots, blocks, reach>>

Init ==
  /\ len \in Sizes
  /\ ids \in BOOLEAN /\ notification \in BOOLEAN
  /\ entries_len \in LengthFields /\ options_len \in LengthFields
  /\ pc = "check" /\ off = 0 /\ i = 0 /\ opt_off = 0
  /\ slots = {} /\ blocks = <<>> /\ reach = 0

-----------------------------------------------------------------------------

\* A fault: the number of entries is not limited.
AnyCount == entries_len % ENTRY_SIZE = 0

\* entries_len is a multiple of 16, and the entries fit in out->entries.
CountOK ==
  /\ entries_len % ENTRY_SIZE = 0
  /\ entries_len \div ENTRY_SIZE <= SD_MAX_ENTRIES

\* hdr_size + entries_len + 4u, in w bits.
OptionsAt == (HDR_SIZE + entries_len + 4) % SIZE_MOD

\* The checks before the loops; each length field is read only when the
\* checks before it have passed.
HeaderOK ==
  /\ len >= HDR_SIZE + 4
  /\ ids
  /\ CountOK
  /\ OptionsAt <= len
  /\ options_len <= len - OptionsAt

Check ==
  /\ pc = "check"
  /\ pc' = IF HeaderOK THEN "entries" ELSE "bad"
  /\ reach' = IF len < HDR_SIZE + 4 THEN 0
              ELSE IF ids /\ CountOK /\ OptionsAt <= len THEN OptionsAt
              ELSE IF ids THEN HDR_SIZE ELSE 4
  /\ UNCHANGED <<datagram, off, i, opt_off, slots, blocks>>

\* One iteration of the loop over entries: 16 bytes into out->entries[off/16].
ParseEntry ==
  /\ pc = "entries" /\ off < entries_len
  /\ off' = off + ENTRY_SIZE
  /\ reach' = IF HDR_SIZE + off' > reach THEN HDR_SIZE + off' ELSE reach
  /\ UNCHANGED <<datagram, pc, i, opt_off, slots, blocks>>

EntriesDone ==
  /\ pc = "entries" /\ off >= entries_len
  /\ pc' = "options"
  /\ UNCHANGED <<datagram, off, i, opt_off, slots, blocks, reach>>

\* The loop goes on: a slot is free and a length and type field are left.
MoreOptions == i < SD_MAX_OPTIONS /\ opt_off + 3 <= options_len

\* A fault: a block is compared with all the options, not with what is left.
FitsAll(block) == block <= options_len

Fits(block) == block <= options_len - opt_off

\* A fault: the address is read from any endpoint option, however short.
AnyEndpoint(type, block) == type = IP4_ENDPOINT

IsEndpoint(type, block) == type = IP4_ENDPOINT /\ block >= IP4_OPTION_SIZE

\* One iteration of the loop over options.  A block that does not fit ends
\* the loop, and the packet is accepted as far as it was read.
ParseOption ==
  /\ pc = "options" /\ MoreOptions
  /\ \E l \in BlockLengths, t \in Types :
       LET block == 3 + l
           read == IF Fits(block) /\ IsEndpoint(t, block)
                   THEN IP4_OPTION_SIZE ELSE 3
           end == OptionsAt + opt_off + read
       IN /\ reach' = IF end > reach THEN end ELSE reach
          /\ blocks' = Append(blocks, [at |-> opt_off, length |-> l, type |-> t])
          /\ slots' = IF Fits(block) /\ IsEndpoint(t, block)
                      THEN slots \cup {i} ELSE slots
          /\ IF Fits(block)
             THEN i' = i + 1 /\ opt_off' = opt_off + block /\ UNCHANGED pc
             ELSE pc' = "ok" /\ UNCHANGED <<i, opt_off>>
  /\ UNCHANGED <<datagram, off>>

OptionsDone ==
  /\ pc = "options" /\ ~MoreOptions
  /\ pc' = "ok"
  /\ UNCHANGED <<datagram, off, i, opt_off, slots, blocks, reach>>

Next == Check \/ ParseEntry \/ EntriesDone \/ ParseOption \/ OptionsDone

Spec == Init /\ [][Next]_parserVars

-----------------------------------------------------------------------------
\* parse_sd (Python integers do not wrap).

\* Where the last of the blocks bs ends.
End(bs) == IF bs = <<>> THEN 0 ELSE bs[Len(bs)].at + 3 + bs[Len(bs)].length

\* parse_sd raises ValueError at one of the blocks bs, or at the bytes behind
\* the last of them: fewer than four are left, or the block is cut off.  What
\* sd_parse has not looked at, behind its fourth block, counts as sound.
OptionError(bs) ==
  \/ \E k \in 1..Len(bs) :
       \/ bs[k].at + 4 > options_len
       \/ bs[k].at + 3 + bs[k].length > options_len
  \/ End(bs) < options_len /\ End(bs) + 4 > options_len

\* The result of parse_sd when the options are the blocks bs.
PyParse(bs) ==
  IF len < 16 \/ ~ids \/ ~notification THEN "ValueError"
  ELSE IF len = 16 THEN "IndexError"   \* packet[16]
  ELSE IF \/ 24 + entries_len + 4 > len
          \/ entries_len % 16 # 0
          \/ 24 + entries_len + 4 + options_len > len
          \/ OptionError(bs)
       THEN "ValueError"
  ELSE "ok"

\* The blocks (counted from 0) in which parse_sd finds an IPv4 endpoint.
PyEndpoints(bs) ==
  {k \in 0..(Len(bs) - 1) :
     bs[k + 1].type = IP4_ENDPOINT /\ 3 + bs[k + 1].length >= 12}

-----------------------------------------------------------------------------
\* Properties.

\* The values the variables take; the loop variables stay in their arrays.
TypeOK ==
  /\ len \in Sizes /\ ids \in BOOLEAN /\ notification \in BOOLEAN
  /\ entries_len \in LengthFields /\ options_len \in LengthFields
  /\ pc \in {"check", "entries", "options", "ok", "bad"}
  /\ off \in 0..(SD_MAX_ENTRIES * ENTRY_SIZE)
  /\ i \in 0..SD_MAX_OPTIONS /\ opt_off \in Nat /\ reach \in Nat
  /\ slots \subseteq 0..(SD_MAX_OPTIONS - 1)
  /\ blocks \in Seq([at : Nat, length : BlockLengths, type : Types])

\* No datagram makes sd_parse read past its end, although the sums of its
\* checks are unsigned and its length fields are the sender's.
ReadsInBounds == reach <= len

\* What parse_sd accepts sd_parse accepts too, if it has at most SD_MAX_ENTRIES
\* entries, and they find the same endpoints in the blocks both have seen.  What
\* sd_parse accepts parse_sd refuses only for the message type, which sd_parse
\* does not look at, or for its options, of which sd_parse keeps the sound ones.
PeersAgree ==
  /\ pc = "bad" /\ entries_len \div 16 <= SD_MAX_ENTRIES
       => PyParse(blocks) # "ok"
  /\ pc = "ok" /\ PyParse(blocks) = "ok" => slots = PyEndpoints(blocks)
  /\ pc = "ok" /\ notification /\ ~OptionError(blocks)
       => PyParse(blocks) = "ok"

=============================================================================
