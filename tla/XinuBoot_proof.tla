--------------------------- MODULE XinuBoot_proof ---------------------------
(***************************************************************************)
(* Proofs about the network boot of the monitor, for files of any length,  *)
(* any number of tries, and a network that loses, repeats and reorders.    *)
(***************************************************************************)
EXTENDS XinuBoot, TLAPS

\* The request has been made; its assignments to the block count have not.
Requesting == {"tftp_state", "tftp_timer", "tftp_block"}

\* The monitor is where a block may be taken.
Receiving == state = "TFTP_REQ_SENT" /\ pc \notin Requesting

(***************************************************************************)
(* What has been stored is the beginning of the file, and block_ counts    *)
(* from it in the states in which a block may be taken.                    *)
(***************************************************************************)
InOrder == /\ \A k \in 1 .. memloc : memory[k] = k
           /\ bytes <= memloc
           /\ pc \in Requesting => memloc = 0 /\ block = 0
           /\ Receiving => block = memloc + 1 /\ block <= NBLOCKS
           /\ state = "BOOT_DONE" => memloc = NBLOCKS
           /\ pc # "monitor" => try <= MON_MAX_TRY

BootInv == BootTypeOK /\ InOrder /\ AckedIsStored

LEMMA InitBootInv == BootInit => BootInv
<1> SUFFICES ASSUME BootInit PROVE BootInv
  OBVIOUS
<1>1. BootTypeOK
  <2>1. memory \in [Blocks -> 0 .. NBLOCKS] /\ NBLOCKS \in Nat
    BY BootAssumption DEF BootInit
  <2>2. acks \subseteq (0 .. sessions) \X (0 .. NBLOCKS)
    BY DEF BootInit
  <2>3. timer \in {OFF} \union 0 .. MON_MAX_TRY + 2
    BY DEF BootInit
  <2>4. server \in BOOLEAN
    BY Zenon DEF BootInit
  <2> QED BY <2>1, <2>2, <2>3, <2>4, BootAssumption
          DEF BootInit, BootTypeOK, BootStates, Places
<1>2. InOrder
  BY BootAssumption DEF BootInit, InOrder, Receiving, Requesting
<1>3. AckedIsStored
  BY DEF BootInit, AckedIsStored
<1> QED BY <1>1, <1>2, <1>3 DEF BootInv

LEMMA LoopKeepsInv ==
  ASSUME BootInv, BootLoop
  PROVE  BootInv'
<1> USE BootAssumption
    DEF BootInv, BootTypeOK, InOrder, Receiving, Requesting, AckedIsStored,
        Blocks, BootStates, Places, OFF, Tries, At, mainVars, fileVars, netVars
<1>1. CASE NoReply
  BY <1>1 DEF NoReply
<1>2. CASE BootpRequest
  BY <1>2 DEF BootpRequest
<1>3. CASE BootpTimer
  BY <1>3 DEF BootpTimer
<1>4. CASE TftpRequest
  BY <1>4 DEF TftpRequest
<1>5. CASE TftpState
  BY <1>5 DEF TftpState
<1>6. CASE TftpTimer
  BY <1>6 DEF TftpTimer
<1>7. CASE TftpBlock
  BY <1>7 DEF TftpBlock
<1>8. CASE TftpBytes
  BY <1>8 DEF TftpBytes
<1>9. CASE TftpRetx
  BY <1>9 DEF TftpRetx
<1>10. CASE BootDone
  BY <1>10 DEF BootDone
<1>11. CASE BootError
  BY <1>11 DEF BootError
<1> QED BY <1>1, <1>2, <1>3, <1>4, <1>5, <1>6, <1>7, <1>8, <1>9, <1>10, <1>11
        DEF BootLoop

LEMMA TickKeepsInv ==
  ASSUME BootInv, Tick
  PROVE  BootInv'
<1> USE BootAssumption
    DEF BootInv, BootTypeOK, InOrder, Receiving, Requesting, AckedIsStored,
        Blocks, BootStates, Places, OFF, Booting, Due, Ack, mainVars, fileVars,
        netVars
<1>1. CASE TickQuiet
  BY <1>1 DEF TickQuiet
<1>2. CASE TickRequest
  BY <1>2 DEF TickRequest
<1>3. CASE TickAck
  BY <1>3 DEF TickAck
<1>4. CASE TickGiveUp
  BY <1>4 DEF TickGiveUp
<1> QED BY <1>1, <1>2, <1>3, <1>4 DEF Tick

LEMMA NetworkKeepsInv ==
  ASSUME BootInv, Network
  PROVE  BootInv'
<1> USE BootAssumption
    DEF BootInv, BootTypeOK, InOrder, Receiving, Requesting, AckedIsStored,
        Blocks, BootStates, Places, OFF, Booting, Ack, TftpIn, mainVars,
        fileVars, netVars
<1>1. ASSUME NEW kind \in {"reply", "bad", "other"}, BootpIn(kind)
      PROVE  BootInv'
  <2>1. server' \in BOOLEAN
    BY <1>1, Zenon DEF BootpIn
  <2> QED BY <1>1, <2>1 DEF BootpIn
<1>2. ASSUME NEW s \in 0 .. sessions, TftpErrorIn(s)
      PROVE  BootInv'
  BY <1>2 DEF TftpErrorIn
<1>3. ASSUME NEW s \in 1 .. sessions, NEW b \in Blocks, Sent(s, b), DataIn(s, b)
      PROVE  BootInv'
  <2>1. Receiving /\ block = b /\ memloc + 1 = b /\ b \in 1 .. NBLOCKS
    BY <1>3 DEF DataIn
  <2>2. memory' = [memory EXCEPT ![b] = b] /\ memory' \in [Blocks -> 0 .. NBLOCKS]
    BY <1>3, <2>1 DEF DataIn
  <2>3. \A k \in Blocks : memory[k] = k => memory'[k] = k
    BY <2>2
  <2>4. acks' = acks \cup {<<s, b>>} /\ memory'[b] = b
    BY <1>3, <2>1, <2>2 DEF DataIn
  <2>5. BootTypeOK'
    BY <1>3, <2>1, <2>2 DEF DataIn
  <2>6. InOrder'
    <3>1. memloc' = b /\ \A k \in 1 .. b : memory'[k] = k
      BY <1>3, <2>1, <2>3, <2>4 DEF DataIn
    <3> QED BY <1>3, <2>1, <3>1 DEF DataIn
  <2>7. AckedIsStored'
    BY <2>3, <2>4
  <2> HIDE DEF BootTypeOK, InOrder, AckedIsStored
  <2> QED BY <2>5, <2>6, <2>7
<1>4. ASSUME NEW s \in 1 .. sessions, NEW b \in Blocks, Sent(s, b), StrayIn(s, b)
      PROVE  BootInv'
  <2>1. state' = state /\ pc' = pc /\ UNCHANGED <<mainVars, fileVars, sessions>>
        /\ port' = s /\ stray' = stray + 1 /\ stray < MaxStray
    BY <1>4 DEF StrayIn
  <2>2. \/ acks' = acks \cup {<<s, b>>} /\ timer' = 2 /\ memory[b] = b
        \/ acks' = acks \cup {<<s, block>>} /\ timer' = 2
           /\ (block > 0 => memory[block] = block)
        \/ acks' = acks /\ timer' = OFF
    <3>1. CASE b = block - 1
      <4>1. block = memloc + 1 /\ b = memloc /\ b \in 1 .. memloc
        BY <1>4, <3>1 DEF StrayIn
      <4>2. memory[b] = b
        BY <4>1
      <4> QED BY <1>4, <3>1, <4>2 DEF StrayIn
    <3>2. CASE b = block + 1
      <4>1. block > 0 => <<s, block>> \in acks
        BY <1>4, <3>2 DEF Sent
      <4>2. block > 0 => memory[block] = block
        BY <4>1
      <4> QED BY <1>4, <3>2, <4>2 DEF StrayIn
    <3>3. CASE b \notin {block - 1, block + 1}
      BY <1>4, <3>3 DEF StrayIn
    <3> QED BY <3>1, <3>2, <3>3
  <2>3. BootTypeOK'
    BY <2>1, <2>2
  <2>4. InOrder'
    BY <2>1
  <2>5. AckedIsStored'
    BY <2>1, <2>2
  <2> QED BY <2>3, <2>4, <2>5
<1> QED BY <1>1, <1>2, <1>3, <1>4 DEF Network, DataArrives

LEMMA BootStep == BootInv /\ [BootNext]_vars => BootInv'
<1> SUFFICES ASSUME BootInv, [BootNext]_vars PROVE BootInv'
  OBVIOUS
<1>1. CASE BootXinu
  BY <1>1, BootAssumption
     DEF BootXinu, BootInv, BootTypeOK, InOrder, Receiving, Requesting,
         AckedIsStored, Blocks, BootStates, Places, OFF, fileVars, netVars
<1>2. CASE UNCHANGED vars
  BY <1>2 DEF vars, mainVars, fileVars, netVars, BootInv, BootTypeOK, InOrder,
              Receiving, AckedIsStored
<1> QED BY <1>1, <1>2, LoopKeepsInv, TickKeepsInv, NetworkKeepsInv DEF BootNext

(***************************************************************************)
(* The invariant of the boot: types, the stored blocks are the beginning   *)
(* of the file and are counted right wherever a block may be taken, and    *)
(* what was ever acknowledged is still in its place.                       *)
(***************************************************************************)
THEOREM BootInductive == BootSpec => []BootInv
<1>1. BootInit => BootInv
  BY InitBootInv
<1>2. BootInv /\ [BootNext]_vars => BootInv'
  BY BootStep
<1> QED BY <1>1, <1>2, PTL DEF BootSpec

\* The types of the boot: nothing is ever stored past the end of the file.
THEOREM BootTypes == BootSpec => []BootTypeOK
<1>1. BootInv => BootTypeOK
  BY DEF BootInv
<1> QED BY <1>1, BootInductive, PTL

(***************************************************************************)
(* montftp.c:54-56 and montimer.c:26: no acknowledgement, resent or made   *)
(* up, is of a block that is not in memory.                                *)
(***************************************************************************)
THEOREM AcksAreStored == BootSpec => []AckedIsStored
<1>1. BootInv => AckedIsStored
  BY DEF BootInv
<1> QED BY <1>1, BootInductive, PTL

----------------------------------------------------------------------------
(* The boot implements BootLoad.                                           *)

LEMMA LoadedIs ==
  ASSUME NEW m \in [Blocks -> 0 .. NBLOCKS], NEW n \in 0 .. NBLOCKS,
         \A k \in 1 .. n : m[k] = k
  PROVE  /\ SubSeq(m, 1, n) \in Seq(Nat)
         /\ Len(SubSeq(m, 1, n)) = n
         /\ \A k \in 1 .. n : SubSeq(m, 1, n)[k] = k
<1>1. m \in Seq(Nat) /\ Len(m) = NBLOCKS
  BY BootAssumption DEF Blocks
<1> QED BY <1>1, BootAssumption

LEMMA SameSequence ==
  ASSUME NEW S, NEW a \in Seq(S), NEW b \in Seq(S), Len(a) = Len(b),
         \A k \in 1 .. Len(a) : a[k] = b[k]
  PROVE  a = b
  OBVIOUS

LEMMA LoadedFacts ==
  ASSUME BootInv
  PROVE  /\ Loaded \in Seq(Nat) /\ Len(Loaded) = memloc
         /\ \A k \in 1 .. memloc : Loaded[k] = k
  BY LoadedIs DEF BootInv, BootTypeOK, InOrder, Loaded

LEMMA LoadedFactsNext ==
  ASSUME BootInv'
  PROVE  /\ Loaded' \in Seq(Nat) /\ Len(Loaded') = memloc'
         /\ \A k \in 1 .. memloc' : Loaded'[k] = k
<1>1. /\ memory' \in [Blocks -> 0 .. NBLOCKS] /\ memloc' \in 0 .. NBLOCKS
      /\ \A k \in 1 .. memloc' : memory'[k] = k
  BY DEF BootInv, BootTypeOK, InOrder, Blocks
<1>2. Loaded' = SubSeq(memory', 1, memloc')
  BY DEF Loaded
<1> HIDE DEF Loaded
<1> QED BY <1>1, <1>2, LoadedIs

\* Two moments with as many blocks stored are the same to BootLoad.
LEMMA LoadedSame ==
  ASSUME BootInv, BootInv', memloc' = memloc
  PROVE  Loaded' = Loaded
  BY LoadedFacts, LoadedFactsNext, SameSequence

LEMMA LoadedMore ==
  ASSUME BootInv, BootInv', memloc' = memloc + 1
  PROVE  Loaded' = Append(Loaded, Len(Loaded) + 1)
<1>1. /\ Loaded \in Seq(Nat) /\ Len(Loaded) = memloc /\ memloc \in Nat
      /\ \A k \in 1 .. memloc : Loaded[k] = k
  <2>1. memloc \in Nat
    BY DEF BootInv, BootTypeOK
  <2> QED BY <2>1, LoadedFacts
<1>2. /\ Loaded' \in Seq(Nat) /\ Len(Loaded') = memloc + 1
      /\ \A k \in 1 .. memloc + 1 : Loaded'[k] = k
  BY LoadedFactsNext
<1> DEFINE a == Append(Loaded, memloc + 1)
<1>3. /\ a \in Seq(Nat) /\ Len(a) = memloc + 1
      /\ \A k \in 1 .. memloc + 1 : a[k] = k
  BY <1>1
<1>4. Loaded' = a
  <2> HIDE DEF a
  <2> QED BY <1>2, <1>3, SameSequence
<1> QED BY <1>1, <1>4

LEMMA InitLoads == BootInit => Load!LoadInit
<1> SUFFICES ASSUME BootInit PROVE Load!LoadInit
  OBVIOUS
<1>1. Loaded \in Seq(Nat) /\ Len(Loaded) = 0
  BY InitBootInv, LoadedFacts DEF BootInit
<1>2. Loaded = <<>>
  BY <1>1
<1> QED BY <1>2 DEF Load!LoadInit, Phase, BootInit

\* Where the next step of the boot leaves the loading going on.
LEMMA LoadingStep ==
  ASSUME BootInv, BootInv', Booting, Booting',
         memloc' \in {memloc, memloc + 1, 0}
  PROVE  [Load!LoadNext]_(Load!lvars)
<1>1. Phase = "loading" /\ Phase' = "loading"
  BY DEF Booting, Phase
<1>2. memloc \in 0 .. NBLOCKS /\ memloc' \in 0 .. NBLOCKS /\ NBLOCKS \in Nat
  BY BootAssumption DEF BootInv, BootTypeOK
<1>3. Len(Loaded) = memloc
  BY LoadedFacts
<1>4. CASE memloc' = memloc
  BY <1>1, <1>4, LoadedSame DEF Load!lvars
<1>5. CASE memloc' = memloc + 1
  BY <1>1, <1>2, <1>3, <1>5, LoadedMore DEF Load!LoadNext, Load!Receive
<1>6. CASE memloc' = 0
  <2>1. Loaded' \in Seq(Nat) /\ Len(Loaded') = 0
    BY <1>6, LoadedFactsNext
  <2>2. Loaded' = <<>>
    BY <2>1
  <2> QED BY <1>1, <2>2 DEF Load!LoadNext, Load!Restart
<1> QED BY <1>4, <1>5, <1>6

LEMMA BootLoads ==
  ASSUME BootInv, BootInv', BootNext
  PROVE  [Load!LoadNext]_(Load!lvars)
<1> USE DEF mainVars, fileVars, netVars, Booting
<1>1. CASE BootXinu
  <2>1. Loaded' = Loaded
    BY <1>1, LoadedSame DEF BootXinu
  <2> QED BY <1>1, <2>1 DEF BootXinu, Phase, Load!LoadNext, Load!Start
<1>2. CASE NoReply \/ BootError
  <2>1. Loaded' = Loaded /\ pc = "loop" /\ pc' = "monitor"
    BY <1>2, LoadedSame DEF NoReply, BootError, At
  <2> QED BY <2>1 DEF Phase, Load!LoadNext, Load!GiveUp
<1>3. CASE BootDone
  <2>1. Loaded' = Loaded /\ pc = "loop" /\ pc' = "jumped" /\ memloc = NBLOCKS
    BY <1>3, LoadedSame DEF BootDone, At, BootInv, InOrder
  <2> QED BY <2>1, LoadedFacts DEF Phase, Load!LoadNext, Load!Run
<1>4. CASE BootLoop /\ ~NoReply /\ ~BootError /\ ~BootDone
  <2>1. Booting /\ Booting' /\ memloc' \in {memloc, 0}
    BY <1>4 DEF BootLoop, BootpRequest, BootpTimer, TftpRequest, TftpState,
                TftpTimer, TftpBlock, TftpBytes, TftpRetx, At
  <2> QED BY <2>1, LoadingStep
<1>5. CASE Tick
  <2>1. Booting /\ Booting' /\ memloc' = memloc
    BY <1>5 DEF Tick, TickQuiet, TickRequest, TickAck, TickGiveUp
  <2> QED BY <2>1, LoadingStep
<1>6. CASE Network
  <2>1. Booting /\ Booting' /\ memloc' \in {memloc, memloc + 1}
    BY <1>6 DEF Network, DataArrives, BootpIn, TftpIn, TftpErrorIn, DataIn, StrayIn
  <2> QED BY <2>1, LoadingStep
<1> QED BY <1>1, <1>2, <1>3, <1>4, <1>5, <1>6 DEF BootNext, BootLoop

(***************************************************************************)
(* boot_xinu, mon_timer and mon_udp_in implement the load of a file, block *)
(* after block, of which nothing but the whole is run: for any length,     *)
(* any number of tries, and any interleaving of the loop, the clock and a  *)
(* network that loses, repeats and reorders.                               *)
(***************************************************************************)
THEOREM BootImplementsLoad == BootSpec => LoadsTheFile
<1>1. BootInit => Load!LoadInit
  BY InitLoads
<1>2. BootInv /\ BootInv' /\ [BootNext]_vars => [Load!LoadNext]_(Load!lvars)
  <2>1. ASSUME BootInv, BootInv', UNCHANGED vars
        PROVE  UNCHANGED Load!lvars
    BY <2>1 DEF vars, fileVars, Load!lvars, Phase, Loaded
  <2> QED BY <2>1, BootLoads
<1> QED BY <1>1, <1>2, BootInductive, PTL DEF BootSpec, LoadsTheFile, Load!LoadSpec
==============================================================================
