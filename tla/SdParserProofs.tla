--------------------------- MODULE SdParserProofs ---------------------------
(***************************************************************************)
(* Proofs about SdParser: sd_parse stays inside the datagram and inside    *)
(* its arrays, and agrees with parse_sd, for every datagram and every      *)
(* width of size_t.                                                        *)
(***************************************************************************)
EXTENDS SdParser, TLAPS

\* What the checks have established for the loops: the option area starts
\* after the entries and ends inside the datagram.
LoopsGuarded ==
  /\ pc = "check" => opt_off = 0
  /\ pc \in {"entries", "options"} =>
       /\ entries_len <= SD_MAX_ENTRIES * ENTRY_SIZE
       /\ entries_len % ENTRY_SIZE = 0
       /\ OptionsAt = HDR_SIZE + entries_len + 4
       /\ OptionsAt + options_len <= len
       /\ opt_off <= options_len

Sizing ==
  /\ len \in Nat /\ entries_len \in Nat /\ options_len \in Nat
  /\ entries_len < SIZE_MOD
  /\ off \in Nat /\ off % ENTRY_SIZE = 0
  /\ off <= SD_MAX_ENTRIES * ENTRY_SIZE
  /\ i \in 0..SD_MAX_OPTIONS /\ opt_off \in Nat /\ reach \in Nat

ParserInv == Sizing /\ LoopsGuarded /\ ReadsInBounds

LEMMA ModSmall ==
  ASSUME NEW x \in Nat, NEW n \in Nat, x < n
  PROVE  x % n = x
  BY SMT

\* The sum in the bounds check does not wrap once the count has been checked.
LEMMA NoWrap ==
  ASSUME entries_len \in Nat, CountOK
  PROVE  /\ entries_len <= SD_MAX_ENTRIES * ENTRY_SIZE
         /\ OptionsAt = HDR_SIZE + entries_len + 4
<1>1. entries_len <= SD_MAX_ENTRIES * ENTRY_SIZE
  BY DEF CountOK, SD_MAX_ENTRIES, ENTRY_SIZE
<1>2. HDR_SIZE + entries_len + 4 \in Nat /\ HDR_SIZE + entries_len + 4 < SIZE_MOD
  BY <1>1, ParserAssumption
     DEF ParserAssumption, HDR_SIZE, SD_MAX_ENTRIES, ENTRY_SIZE
<1> QED
  BY <1>1, <1>2, ModSmall, ParserAssumption DEF OptionsAt, ParserAssumption

LEMMA InitParserInv == Init => ParserInv
  BY ParserAssumption
     DEF Init, ParserInv, Sizing, LoopsGuarded, ReadsInBounds,
         ParserAssumption, ENTRY_SIZE, SD_MAX_ENTRIES, SD_MAX_OPTIONS

LEMMA StepParserInv == ParserInv /\ [Next]_parserVars => ParserInv'
<1> SUFFICES ASSUME ParserInv, [Next]_parserVars PROVE ParserInv'
  OBVIOUS
<1> USE DEF ParserInv, Sizing, LoopsGuarded, ReadsInBounds, datagram
<1>1. CASE Check
  <2>1. CASE HeaderOK
    <3>1. /\ entries_len <= SD_MAX_ENTRIES * ENTRY_SIZE
          /\ OptionsAt = HDR_SIZE + entries_len + 4
          /\ entries_len % ENTRY_SIZE = 0
      BY <2>1, NoWrap DEF HeaderOK, CountOK
    <3>2. OptionsAt + options_len <= len
      BY <2>1, <3>1 DEF HeaderOK, HDR_SIZE
    <3>3. /\ UNCHANGED <<len, entries_len, options_len, off, i, opt_off>>
          /\ OptionsAt' = OptionsAt /\ opt_off = 0
          /\ pc' = "entries" /\ reach' = OptionsAt
      BY <1>1, <2>1 DEF Check, HeaderOK, OptionsAt, HDR_SIZE
    <3>4. OptionsAt \in Nat
      BY <3>1 DEF HDR_SIZE
    <3> QED
      BY <3>1, <3>2, <3>3, <3>4
  <2>2. CASE ~HeaderOK
    <3>1. CountOK => OptionsAt \in Nat
      BY NoWrap DEF HDR_SIZE
    <3>2. reach' \in Nat /\ reach' <= len
      BY <1>1, <3>1 DEF Check, HDR_SIZE
    <3> QED
      BY <1>1, <2>2, <3>2 DEF Check, OptionsAt
  <2> QED
    BY <2>1, <2>2
<1>2. CASE ParseEntry
  BY <1>2 DEF ParseEntry, OptionsAt, HDR_SIZE, ENTRY_SIZE, SD_MAX_ENTRIES
<1>3. CASE EntriesDone
  BY <1>3 DEF EntriesDone, OptionsAt
<1>4. CASE ParseOption
  <2>1. PICK l \in BlockLengths, t \in Types :
          LET block == 3 + l
              read == IF Fits(block) /\ IsEndpoint(t, block)
                      THEN IP4_OPTION_SIZE ELSE 3
              end == OptionsAt + opt_off + read
          IN /\ reach' = IF end > reach THEN end ELSE reach
             /\ IF Fits(block)
                THEN i' = i + 1 /\ opt_off' = opt_off + block /\ UNCHANGED pc
                ELSE pc' = "ok" /\ UNCHANGED <<i, opt_off>>
    BY <1>4 DEF ParseOption
  <2>2. l \in Nat
    BY ParserAssumption DEF ParserAssumption
  <2>3. /\ OptionsAt \in Nat /\ i < SD_MAX_OPTIONS
        /\ opt_off + 3 <= options_len
        /\ OptionsAt + options_len <= len
    BY <1>4 DEF ParseOption, MoreOptions, HDR_SIZE
  <2>4. UNCHANGED datagram /\ UNCHANGED off /\ OptionsAt' = OptionsAt
    BY <1>4 DEF ParseOption, OptionsAt
  <2>5. CASE Fits(3 + l)
    <3>1. /\ opt_off + (3 + l) <= options_len
          /\ i' = i + 1 /\ opt_off' = opt_off + (3 + l) /\ pc' = pc
      BY <2>1, <2>2, <2>3, <2>5 DEF Fits
    <3>2. CASE IsEndpoint(t, 3 + l)
      <4>1. /\ 3 + l >= 12
            /\ \/ reach' = reach
               \/ reach' = OptionsAt + opt_off + 12
        BY <2>1, <2>5, <3>2 DEF IsEndpoint, IP4_OPTION_SIZE
      <4>2. reach' \in Nat /\ reach' <= len
        BY <2>2, <2>3, <3>1, <4>1
      <4> QED
        BY <1>4, <2>2, <2>3, <2>4, <3>1, <4>2 DEF SD_MAX_OPTIONS, ParseOption
    <3>3. CASE ~IsEndpoint(t, 3 + l)
      <4>1. reach' = reach \/ reach' = OptionsAt + opt_off + 3
        BY <2>1, <2>5, <3>3
      <4>2. reach' \in Nat /\ reach' <= len
        BY <2>2, <2>3, <4>1
      <4> QED
        BY <1>4, <2>2, <2>3, <2>4, <3>1, <4>2 DEF SD_MAX_OPTIONS, ParseOption
    <3> QED
      BY <3>2, <3>3
  <2>6. CASE ~Fits(3 + l)
    <3>1. /\ pc' = "ok" /\ UNCHANGED <<i, opt_off>>
          /\ reach' = reach \/ reach' = OptionsAt + opt_off + 3
      BY <2>1, <2>6
    <3>2. reach' \in Nat /\ reach' <= len
      BY <2>3, <3>1
    <3> QED
      BY <2>4, <3>1, <3>2
  <2> QED
    BY <2>5, <2>6
<1>5. CASE OptionsDone
  BY <1>5 DEF OptionsDone
<1>6. CASE UNCHANGED parserVars
  BY <1>6 DEF parserVars, OptionsAt
<1> QED
  BY <1>1, <1>2, <1>3, <1>4, <1>5, <1>6 DEF Next

\* sd_parse (someip_sd.cpp) reads no byte past the end of the datagram it was
\* given, whatever the datagram and the width of its unsigned arithmetic.
THEOREM ParserReadsInBounds == Spec => []ReadsInBounds
<1>1. Spec => []ParserInv
  BY InitParserInv, StepParserInv, PTL DEF Spec
<1>2. ParserInv => ReadsInBounds
  BY DEF ParserInv
<1> QED
  BY <1>1, <1>2, PTL

LEMMA AppendKeepsSeq ==
  ASSUME NEW S, NEW s \in Seq(S), NEW e \in S
  PROVE  Append(s, e) \in Seq(S)
  OBVIOUS

\* What ParserInv leaves to the type invariant: the loop over options writes
\* inside out->options, and the history is a sequence of blocks.
LEMMA StepParserType ==
  ASSUME TypeOK, ParserInv, ParserInv', [Next]_parserVars
  PROVE  TypeOK'
<1>1. /\ off' \in 0..(SD_MAX_ENTRIES * ENTRY_SIZE)
      /\ i' \in 0..SD_MAX_OPTIONS /\ opt_off' \in Nat /\ reach' \in Nat
  BY DEF ParserInv, Sizing, SD_MAX_ENTRIES, ENTRY_SIZE
<1>2. UNCHANGED datagram
  BY DEF Next, Check, ParseEntry, EntriesDone, ParseOption, OptionsDone,
         parserVars
<1>3. pc' \in {"check", "entries", "options", "ok", "bad"}
  <2>1. CASE ParseOption
    BY <2>1 DEF ParseOption, TypeOK
  <2> QED
    BY <2>1 DEF Next, Check, ParseEntry, EntriesDone, OptionsDone, parserVars,
                TypeOK
<1>4. /\ slots' \subseteq 0..(SD_MAX_OPTIONS - 1)
      /\ blocks' \in Seq([at : Nat, length : BlockLengths, type : Types])
  <2>1. CASE ParseOption
    <3>1. PICK l \in BlockLengths, t \in Types :
            /\ blocks' = Append(blocks,
                                [at |-> opt_off, length |-> l, type |-> t])
            /\ slots' = slots \cup {i} \/ slots' = slots
      BY <2>1 DEF ParseOption
    <3>2. i \in 0..(SD_MAX_OPTIONS - 1)
      BY <2>1 DEF ParseOption, MoreOptions, TypeOK, SD_MAX_OPTIONS
    <3>3. [at |-> opt_off, length |-> l, type |-> t]
            \in [at : Nat, length : BlockLengths, type : Types]
      BY DEF TypeOK
    <3>4. slots' \subseteq 0..(SD_MAX_OPTIONS - 1)
      BY <3>1, <3>2 DEF TypeOK
    <3>5. blocks' \in Seq([at : Nat, length : BlockLengths, type : Types])
      BY <3>1, <3>3, AppendKeepsSeq DEF TypeOK
    <3> QED
      BY <3>4, <3>5
  <2>2. CASE UNCHANGED <<slots, blocks>>
    BY <2>2 DEF TypeOK
  <2> QED
    BY <2>1, <2>2 DEF Next, Check, ParseEntry, EntriesDone, OptionsDone,
                      parserVars
<1> QED
  BY <1>1, <1>2, <1>3, <1>4 DEF TypeOK, datagram

\* The loops of sd_parse stay inside out->entries and out->options: the
\* counters and the slots written never leave their arrays.
THEOREM ParserTypeCorrect == Spec => []TypeOK
<1>1. Init => TypeOK
  BY DEF Init, TypeOK, SD_MAX_ENTRIES, ENTRY_SIZE, SD_MAX_OPTIONS
<1>2. Spec => []ParserInv
  BY InitParserInv, StepParserInv, PTL DEF Spec
<1>3. TypeOK /\ ParserInv /\ ParserInv' /\ [Next]_parserVars => TypeOK'
  BY StepParserType
<1> QED
  BY <1>1, <1>2, <1>3, PTL DEF Spec

-----------------------------------------------------------------------------
\* The blocks the C loop has seen are those that parse_sd would see, one per
\* iteration, until one does not fit: there sd_parse stops and parse_sd raises.

Blocks == [at : Nat, length : BlockLengths, type : Types]

AgreeInv ==
  /\ pc \in {"check", "entries"} => i = 0 /\ slots = {} /\ blocks = <<>>
  /\ pc = "bad" => ~HeaderOK
  /\ pc \in {"entries", "options", "ok"} => HeaderOK
  /\ pc = "options" => Len(blocks) = i /\ slots = PyEndpoints(blocks)
  /\ pc = "ok" => slots = PyEndpoints(blocks) \/ OptionError(blocks)

\* One more block is one more position to look at.
LEMMA EndpointsOfAppend ==
  ASSUME NEW bs \in Seq(Blocks), NEW b \in Blocks
  PROVE  PyEndpoints(Append(bs, b))
           = IF IsEndpoint(b.type, 3 + b.length)
             THEN PyEndpoints(bs) \cup {Len(bs)} ELSE PyEndpoints(bs)
<1> DEFINE n == Len(bs)
           more == Append(bs, b)
<1>1. /\ n \in Nat /\ Len(more) = n + 1 /\ more[n + 1] = b
      /\ \A k \in 1..n : more[k] = bs[k]
  OBVIOUS
<1>2. \A k \in 0..(n - 1) : k + 1 \in 1..n
  BY <1>1
<1>3. \A k : k \in 0..(Len(more) - 1) <=> k \in 0..(n - 1) \/ k = n
  BY <1>1
<1>4. n \notin 0..(n - 1)
  BY <1>1
<1> HIDE DEF n, more
<1> QED
  BY <1>1, <1>2, <1>3, <1>4
     DEF PyEndpoints, IsEndpoint, IP4_OPTION_SIZE, n, more

LEMMA InitAgreeInv == Init => AgreeInv
  BY DEF Init, AgreeInv

LEMMA StepAgreeInv ==
  TypeOK /\ ParserInv /\ AgreeInv /\ [Next]_parserVars => AgreeInv'
<1> SUFFICES ASSUME TypeOK, ParserInv, AgreeInv, [Next]_parserVars
             PROVE  AgreeInv'
  OBVIOUS
<1>1. UNCHANGED datagram
  BY DEF Next, Check, ParseEntry, EntriesDone, ParseOption, OptionsDone,
         parserVars
<1>2. HeaderOK' = HeaderOK
  BY <1>1 DEF datagram, HeaderOK, CountOK, OptionsAt
<1>3. CASE Check
  BY <1>2, <1>3 DEF Check, AgreeInv
<1>4. CASE ParseEntry
  BY <1>2, <1>4 DEF ParseEntry, AgreeInv
<1>5. CASE EntriesDone
  <2>1. PyEndpoints(<<>>) = {}
    BY DEF PyEndpoints
  <2> QED
    BY <1>2, <1>5, <2>1 DEF EntriesDone, AgreeInv
<1>6. CASE ParseOption
  <2>1. PICK l \in BlockLengths, t \in Types :
          /\ blocks' = Append(blocks,
                              [at |-> opt_off, length |-> l, type |-> t])
          /\ slots' = IF Fits(3 + l) /\ IsEndpoint(t, 3 + l)
                      THEN slots \cup {i} ELSE slots
          /\ IF Fits(3 + l) THEN i' = i + 1 /\ UNCHANGED pc ELSE pc' = "ok"
    BY <1>6 DEF ParseOption
  <2> DEFINE b == [at |-> opt_off, length |-> l, type |-> t]
  <2>2. b \in Blocks /\ blocks \in Seq(Blocks)
    BY DEF Blocks, TypeOK
  <2>3. /\ pc = "options" /\ Len(blocks) = i /\ slots = PyEndpoints(blocks)
        /\ Len(blocks') = i + 1 /\ blocks'[i + 1] = b /\ i \in Nat
    BY <1>6, <2>1, <2>2 DEF ParseOption, AgreeInv, TypeOK
  <2>4. CASE Fits(3 + l)
    <3>1. slots' = PyEndpoints(blocks')
      BY <2>1, <2>2, <2>3, <2>4, EndpointsOfAppend
    <3> QED
      BY <1>2, <2>1, <2>3, <2>4, <3>1 DEF AgreeInv
  <2>5. CASE ~Fits(3 + l)
    <3>1. opt_off + 3 + l > options_len
      <4>1. l \in Nat /\ opt_off \in Nat /\ options_len \in Nat
        BY ParserAssumption DEF ParserAssumption, ParserInv, Sizing
      <4> QED
        BY <2>5, <4>1 DEF Fits
    <3>2. b.at + 3 + b.length > options_len'
      BY <1>1, <3>1 DEF datagram
    <3>3. OptionError(blocks)'
      <4>1. i + 1 \in 1..Len(blocks')
        BY <2>3
      <4> QED
        BY <2>3, <3>2, <4>1 DEF OptionError
    <3> QED
      BY <1>2, <2>1, <2>3, <2>5, <3>3 DEF AgreeInv
  <2> QED
    BY <2>4, <2>5
<1>7. CASE OptionsDone
  BY <1>2, <1>7 DEF OptionsDone, AgreeInv
<1>8. CASE UNCHANGED parserVars
  BY <1>1, <1>2, <1>8
     DEF parserVars, datagram, AgreeInv, PyEndpoints, OptionError, End
<1> QED
  BY <1>3, <1>4, <1>5, <1>6, <1>7, <1>8 DEF Next

\* A datagram of no more than SD_MAX_ENTRIES entries that fails a check of
\* sd_parse fails one of parse_sd.
LEMMA ChecksAgree ==
  ASSUME len \in Nat, entries_len \in Nat, options_len \in Nat,
         entries_len \div 16 <= SD_MAX_ENTRIES, PyParse(blocks) = "ok"
  PROVE  HeaderOK
<1>1. /\ ids /\ entries_len % 16 = 0 /\ 24 + entries_len + 4 <= len
      /\ 24 + entries_len + 4 + options_len <= len
  BY DEF PyParse
<1>2. CountOK
  BY <1>1 DEF CountOK, ENTRY_SIZE
<1>3. OptionsAt = HDR_SIZE + entries_len + 4
  BY <1>2, NoWrap
<1> QED
  BY <1>1, <1>2, <1>3 DEF HeaderOK, HDR_SIZE

\* A notification that passes the checks of sd_parse passes those of parse_sd,
\* as far as they are not about the options.
LEMMA ChecksSuffice ==
  ASSUME len \in Nat, entries_len \in Nat, options_len \in Nat,
         HeaderOK, notification, ~OptionError(blocks)
  PROVE  PyParse(blocks) = "ok"
<1>1. OptionsAt = HDR_SIZE + entries_len + 4
  BY NoWrap DEF HeaderOK
<1>2. /\ ids /\ len >= 28 /\ entries_len % 16 = 0
      /\ 24 + entries_len + 4 <= len
      /\ 24 + entries_len + 4 + options_len <= len
  BY <1>1 DEF HeaderOK, CountOK, HDR_SIZE, ENTRY_SIZE
<1> QED
  BY <1>2 DEF PyParse

\* The two parsers of the repository agree (someip_sd.cpp and sd.py): what
\* parse_sd accepts sd_parse accepts, and they find the same endpoints; what
\* only sd_parse accepts has the wrong message type or damaged options.  This
\* holds for every datagram.
THEOREM ParsersOfBothSidesAgree == Spec => []PeersAgree
<1>1. Spec => []ParserInv
  BY InitParserInv, StepParserInv, PTL DEF Spec
<1>2. Spec => []AgreeInv
  BY <1>1, ParserTypeCorrect, InitAgreeInv, StepAgreeInv, PTL DEF Spec
<1>3. ParserInv /\ AgreeInv => PeersAgree
  <2> SUFFICES ASSUME ParserInv, AgreeInv PROVE PeersAgree
    OBVIOUS
  <2>1. len \in Nat /\ entries_len \in Nat /\ options_len \in Nat
    BY DEF ParserInv, Sizing
  <2>2. ASSUME pc = "bad", entries_len \div 16 <= SD_MAX_ENTRIES
        PROVE  PyParse(blocks) # "ok"
    BY <2>1, <2>2, ChecksAgree DEF AgreeInv
  <2>3. ASSUME pc = "ok", PyParse(blocks) = "ok"
        PROVE  slots = PyEndpoints(blocks)
    <3>1. ~OptionError(blocks)
      BY <2>3 DEF PyParse
    <3> QED
      BY <2>3, <3>1 DEF AgreeInv
  <2>4. ASSUME pc = "ok", notification, ~OptionError(blocks)
        PROVE  PyParse(blocks) = "ok"
    BY <2>1, <2>4, ChecksSuffice DEF AgreeInv
  <2> QED
    BY <2>2, <2>3, <2>4 DEF PeersAgree
<1> QED
  BY <1>1, <1>2, <1>3, PTL

=============================================================================
