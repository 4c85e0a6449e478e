------------------------- MODULE ScanRollup_proofs ---------------------------
(***************************************************************************)
(* Proofs about ScanRollup: for every report the systems may make, of any  *)
(* length.  The argument, in its order:                                    *)
(*   - each decoder makes well-formed BSSes, of which none is open and     *)
(*     something else (TypeOK, AloneInv);                                  *)
(*   - the ranking is transitive, so the best of a group and the next BSS  *)
(*     decide the best of both (LaterIsKept, PassKeepsRanking);            *)
(*   - Before is a strict total order of networks with distinct SSIDs, so  *)
(*     counting predecessors sorts them, strictly (SortedSorts,            *)
(*     SortedIsStrict), and what rollup or the mock lists are such         *)
(*     networks (Listable).                                                *)
(***************************************************************************)
EXTENDS ScanRollup, FiniteSetTheorems, FunctionTheorems, WellFoundedInduction, TLAPS

-----------------------------------------------------------------------------
(* Types.                                                                  *)

\* What rollup can be given.
RawBsses ==
    [ssid : Ssids, security : SUBSET Flags, rssi_dbm : Optional(Int), quality : Nat,
     bssid : Optional(Nat), frequency_mhz : Optional(Int)]

Platforms == {"macos", "linux", "android", "windows"}

TypeOK ==
    /\ pc \in {"fetch", "filter", "loop", "done"}
    /\ report \in Reports
    /\ next \in Nat \ {0}
    /\ bsses \in Seq(RawBsses)
    /\ pc \in {"filter", "loop"} => report.platform \in Platforms /\ next <= Len(bsses) + 1
    /\ pc \in {"fetch", "filter"} => DOMAIN by_ssid = {}

LEMMA QualityIsNat ==
    ASSUME NEW dbm \in Int
    PROVE  quality_from_dbm(dbm) \in Nat
BY DEF quality_from_dbm

LEMMA OneRawBss ==
    ASSUME NEW ssid \in Ssids, NEW security \in SUBSET Flags, NEW rssi \in Optional(Int),
           NEW quality \in Nat, NEW bssid \in Optional(Nat), NEW mhz \in Optional(Int)
    PROVE  RawBss(ssid, security, rssi, quality, bssid, mhz) \in RawBsses
BY DEF RawBss, RawBsses

LEMMA MacTypes ==
    ASSUME NEW e \in MacEntries
    PROVE  MacBsses(e) \in Seq(RawBsses)
<1>1. CASE e.ssid = None
  BY <1>1 DEF MacBsses
<1>2. CASE e.ssid # None
  <2>1. e.ssid \in Ssids /\ e.rssi \in Int /\ e.bssid \in Optional(Nat)
        /\ e.channel \in Int /\ e.modes \in SUBSET CWModes
    BY <1>2 DEF MacEntries, Optional
  <2>2. security_from_cw_set(e.modes) \in SUBSET Flags
    <3>1. \A mode \in CWModes : FlagsOfMode(mode) \subseteq Flags
      BY DEF CWModes, FlagsOfMode, Flags
    <3>2. QED
      BY <2>1, <3>1 DEF security_from_cw_set, OweExcludesOpen
  <2>3. MeasuredRssi(e) \in Optional(Int)
    BY <2>1 DEF MeasuredRssi, Optional
  <2>4. (IF MeasuredRssi(e) = None THEN 0 ELSE quality_from_dbm(MeasuredRssi(e))) \in Nat
    BY <2>3, QualityIsNat DEF Optional
  <2>5. channel_to_mhz(e.channel, e.band) \in Optional(Int)
    BY <2>1 DEF channel_to_mhz, Optional
  <2>6. QED
    BY <1>2, <2>1, <2>2, <2>3, <2>4, <2>5, OneRawBss DEF MacBsses
<1>3. QED
  BY <1>1, <1>2

LEMMA LinuxTypes ==
    ASSUME NEW e \in LinuxEntries
    PROVE  LinuxBsses(e) \in Seq(RawBsses)
<1>1. CASE e.ssid = None \/ e.strength = None
  BY <1>1 DEF LinuxBsses
<1>2. CASE ~(e.ssid = None \/ e.strength = None)
  <2>1. e.ssid \in Ssids /\ e.strength \in Nat /\ e.bssid \in Optional(Nat)
        /\ e.mhz \in Optional(Int) /\ None \in Optional(Int)
    BY <1>2 DEF LinuxEntries, Optional
  <2>2. \A privacy, wpa, rsn : security_from_nm_flags(privacy, wpa, rsn) \in SUBSET Flags
    BY DEF security_from_nm_flags, Flags
  <2>3. QED
    BY <1>2, <2>1, <2>2, OneRawBss DEF LinuxBsses
<1>3. QED
  BY <1>1, <1>2

LEMMA AndroidTokens ==
    ASSUME NEW e \in AndroidEntries
    PROVE  (IF e.tokens = None THEN {} ELSE e.tokens) \in SUBSET Tokens
<1>1. e.tokens = None \/ e.tokens \in SUBSET Tokens
  <2> DEFINE S == SUBSET Tokens
  <2>1. e.tokens \in Optional(S)
    <3> HIDE DEF S
    <3>1. \A x \in [ssid : Optional(Ssids), level : Int, tokens : Optional(S),
                    bssid : Optional(Nat), mhz : Int] : x.tokens \in Optional(S)
      OBVIOUS
    <3>2. QED
      BY <3>1 DEF AndroidEntries, S
  <2>2. QED
    BY <2>1, Zenon DEF Optional
<1>2. QED
  BY <1>1

LEMMA AndroidTypes ==
    ASSUME NEW e \in AndroidEntries
    PROVE  AndroidBsses(e) \in Seq(RawBsses)
<1>1. CASE e.ssid = None
  BY <1>1 DEF AndroidBsses
<1>2. CASE e.ssid # None
  <2>1. e.ssid \in Ssids /\ e.level \in Int /\ e.bssid \in Optional(Nat)
        /\ e.mhz \in Int
    BY <1>2 DEF AndroidEntries, Optional
  <2> DEFINE tokens == IF e.tokens = None THEN {} ELSE e.tokens
  <2>5. tokens \in SUBSET Tokens
    BY AndroidTokens
  <2> HIDE DEF tokens
  <2>2. security_from_capabilities(tokens) \in SUBSET Flags
    <3>1. ASSUME NEW t \in Tokens PROVE FlagsOfToken(t) \subseteq Flags
      <4>1. t.family \in {"hint", "WEP", "WPA", "RSN", "other"}
        BY DEF Tokens
      <4>2. CASE t.family \in {"hint", "WEP"}
        BY <4>2 DEF FlagsOfToken, Flags
      <4>3. CASE t.family \in {"WPA", "RSN", "other"}
        BY <4>3 DEF FlagsOfToken, Flags
      <4>4. QED
        BY <4>1, <4>2, <4>3
    <3>2. FlagsOfTokens(tokens) \subseteq Flags
      BY <2>5, <3>1, Zenon DEF FlagsOfTokens
    <3>3. \A S \in SUBSET Flags :
              /\ OweExcludesOpen(S \cup {"OPEN"}) \subseteq Flags
              /\ OweExcludesOpen(S \cup {}) \subseteq Flags
      BY DEF OweExcludesOpen, Flags
    <3>4. QED
      BY <3>2, <3>3 DEF security_from_capabilities
  <2>3. e.level \in Optional(Int) /\ quality_from_dbm(e.level) \in Nat
        /\ (IF e.mhz < 0 THEN None ELSE e.mhz) \in Optional(Int)
    BY <2>1, QualityIsNat DEF Optional
  <2>4. QED
    BY <1>2, <2>1, <2>2, <2>3, OneRawBss DEF AndroidBsses, tokens
<1>3. QED
  BY <1>1, <1>2

LEMMA WindowsTypes ==
    ASSUME NEW e \in WindowsEntries
    PROVE  WindowsBsses(e) \in Seq(RawBsses)
<1>0. /\ e.ssid \in Ssids /\ e.quality \in Nat
      /\ e.bsses # None =>
            e.bsses \in Seq([rssi : Int, bssid : Optional(Nat), mhz : Optional(Int)])
  BY DEF WindowsEntries, Optional
<1>1. security_from_auth_cipher(e.auth, e.cipher) \in SUBSET Flags
  BY DEF WindowsEntries, AuthAlgorithms, security_from_auth_cipher, Flags
<1>2. CASE e.ssid = <<>>
  BY <1>2 DEF WindowsBsses
<1>3. CASE e.ssid # <<>> /\ e.bsses = None
  <2>1. None \in Optional(Int) /\ None \in Optional(Nat)
        /\ (IF e.quality > 100 THEN 100 ELSE e.quality) \in Nat
    BY <1>0 DEF Optional
  <2>2. QED
    BY <1>0, <1>1, <1>3, <2>1, OneRawBss DEF WindowsBsses
<1>4. CASE e.ssid # <<>> /\ e.bsses # None
  <2>1. ASSUME NEW j \in 1..Len(e.bsses)
        PROVE  RawBss(e.ssid, security_from_auth_cipher(e.auth, e.cipher), e.bsses[j].rssi,
                      quality_from_dbm(e.bsses[j].rssi), e.bsses[j].bssid,
                      e.bsses[j].mhz) \in RawBsses
    <3> DEFINE Listed == [rssi : Int, bssid : Optional(Nat), mhz : Optional(Int)]
    <3>1. e.bsses[j] \in Listed
      <4>1. e.bsses \in Seq(Listed)
        BY <1>0, <1>4
      <4> HIDE DEF Listed
      <4>2. QED
        BY <4>1
    <3>2. /\ e.bsses[j].rssi \in Int /\ e.bsses[j].bssid \in Optional(Nat)
          /\ e.bsses[j].mhz \in Optional(Int)
      BY <3>1
    <3>3. e.bsses[j].rssi \in Optional(Int) /\ quality_from_dbm(e.bsses[j].rssi) \in Nat
      BY <3>2, QualityIsNat DEF Optional
    <3>4. QED
      BY <1>0, <1>1, <3>2, <3>3, OneRawBss
  <2>2. Len(e.bsses) \in Nat
    BY <1>0, <1>4
  <2>3. WindowsBsses(e) =
            [j \in 1..Len(e.bsses) |->
                RawBss(e.ssid, security_from_auth_cipher(e.auth, e.cipher), e.bsses[j].rssi,
                       quality_from_dbm(e.bsses[j].rssi), e.bsses[j].bssid, e.bsses[j].mhz)]
    BY <1>4 DEF WindowsBsses
  <2>4. QED
    BY <2>1, <2>2, <2>3
<1>5. QED
  BY <1>2, <1>3, <1>4

\* What a platform makes of an entry it was given.
LEMMA BssTypes ==
    ASSUME report.platform \in Platforms, NEW e \in EntriesOf(report.platform)
    PROVE  BssesOf(e) \in Seq(RawBsses)
BY MacTypes, LinuxTypes, AndroidTypes, WindowsTypes DEF Platforms, EntriesOf, BssesOf
-----------------------------------------------------------------------------
(* Decoding.                                                               *)

LEMMA OpenWithoutOwe ==
    \A S : "OPEN" \in OweExcludesOpen(S) => "OPEN" \in S /\ "OWE" \notin OweExcludesOpen(S)
BY DEF OweExcludesOpen

LEMMA MacAlone ==
    ASSUME NEW observed PROVE OpenAlone("macos", security_from_cw_set(observed))
BY OpenWithoutOwe DEF security_from_cw_set, OpenAlone

LEMMA LinuxAlone ==
    ASSUME NEW privacy, NEW wpa, NEW rsn
    PROVE  OpenAlone("linux", security_from_nm_flags(privacy, wpa, rsn))
BY DEF security_from_nm_flags, OpenAlone

LEMMA AndroidAlone ==
    ASSUME NEW tokens \in SUBSET Tokens
    PROVE  OpenAlone("android", security_from_capabilities(tokens))
<1>1. \A t \in tokens : "OPEN" \notin FlagsOfToken(t)
  <2> SUFFICES ASSUME NEW t \in tokens PROVE "OPEN" \notin FlagsOfToken(t)
    OBVIOUS
  <2>1. t.family \in {"hint", "WEP", "WPA", "RSN", "other"}
    BY DEF Tokens
  <2>2. CASE t.family \in {"hint", "WEP"}
    BY <2>2 DEF FlagsOfToken
  <2>3. CASE t.family \in {"WPA", "RSN", "other"}
    BY <2>3 DEF FlagsOfToken
  <2>4. QED
    BY <2>1, <2>2, <2>3
<1>2. "OPEN" \notin FlagsOfTokens(tokens)
  BY <1>1, Zenon DEF FlagsOfTokens
<1>3. CASE OnlyHints(tokens)
  <2>1. \A t \in tokens : FlagsOfToken(t) = {}
    BY <1>3 DEF OnlyHints, FlagsOfToken
  <2>2. FlagsOfTokens(tokens) = {}
    BY <2>1 DEF FlagsOfTokens
  <2>3. security_from_capabilities(tokens) = {"OPEN"}
    BY <1>3, <2>2 DEF security_from_capabilities, OweExcludesOpen
  <2>4. QED
    BY <2>3 DEF OpenAlone
<1>4. CASE ~OnlyHints(tokens)
  <2>1. "OPEN" \notin security_from_capabilities(tokens)
    BY <1>2, <1>4, OpenWithoutOwe DEF security_from_capabilities
  <2>2. QED
    BY <2>1 DEF OpenAlone
<1>5. QED
  BY <1>3, <1>4

LEMMA WindowsAlone ==
    ASSUME NEW auth \in AuthAlgorithms, NEW cipher
    PROVE  OpenAlone("windows", security_from_auth_cipher(auth, cipher))
BY DEF AuthAlgorithms, security_from_auth_cipher, OpenAlone

\* The BSSes of a platform of which none is open and something else.
AloneOn(platform) == {b \in RawBsses : OpenAlone(platform, b.security)}

LEMMA AllAlone ==
    ASSUME NEW platform, NEW bs \in Seq(RawBsses),
           \A j \in 1..Len(bs) : OpenAlone(platform, bs[j].security)
    PROVE  bs \in Seq(AloneOn(platform))
<1>1. \A j \in 1..Len(bs) : bs[j] \in AloneOn(platform)
  BY DEF AloneOn
<1>2. QED
  BY <1>1

LEMMA EntryAlone ==
    ASSUME report.platform \in Platforms, NEW e \in EntriesOf(report.platform)
    PROVE  BssesOf(e) \in Seq(AloneOn(report.platform))
<1>1. BssesOf(e) \in Seq(RawBsses)
  BY BssTypes
<1>2. CASE report.platform = "macos"
  <2>1. BssesOf(e) = MacBsses(e)
    BY <1>2 DEF BssesOf
  <2>2. \A j \in 1..Len(MacBsses(e)) : OpenAlone("macos", MacBsses(e)[j].security)
    BY MacAlone DEF MacBsses, RawBss
  <2>3. QED
    BY <1>1, <1>2, <2>1, <2>2, AllAlone
<1>3. CASE report.platform = "linux"
  <2>1. BssesOf(e) = LinuxBsses(e)
    BY <1>3 DEF BssesOf
  <2>2. \A j \in 1..Len(LinuxBsses(e)) : OpenAlone("linux", LinuxBsses(e)[j].security)
    BY LinuxAlone DEF LinuxBsses, RawBss
  <2>3. QED
    BY <1>1, <1>3, <2>1, <2>2, AllAlone
<1>4. CASE report.platform = "android"
  <2>1. BssesOf(e) = AndroidBsses(e) /\ e \in AndroidEntries
    BY <1>4 DEF BssesOf, EntriesOf
  <2>2. OpenAlone("android",
                  security_from_capabilities(IF e.tokens = None THEN {} ELSE e.tokens))
    BY <2>1, AndroidTokens, AndroidAlone
  <2>3. \A j \in 1..Len(AndroidBsses(e)) : OpenAlone("android", AndroidBsses(e)[j].security)
    BY <2>2 DEF AndroidBsses, RawBss
  <2>4. QED
    BY <1>1, <1>4, <2>1, <2>3, AllAlone
<1>5. CASE report.platform = "windows"
  <2>1. BssesOf(e) = WindowsBsses(e) /\ e.auth \in AuthAlgorithms
    BY <1>5 DEF BssesOf, EntriesOf, WindowsEntries
  <2>2. \A j \in 1..Len(WindowsBsses(e)) :
            WindowsBsses(e)[j].security = security_from_auth_cipher(e.auth, e.cipher)
    BY DEF WindowsBsses, RawBss
  <2>3. QED
    BY <1>1, <1>5, <2>1, <2>2, WindowsAlone, AllAlone
<1>6. QED
  BY <1>2, <1>3, <1>4, <1>5 DEF Platforms

-----------------------------------------------------------------------------
(* The ranking, of any sequence of BSSes.                                  *)

GroupIn(bs, s, n) == {j \in 1..n : bs[j].ssid = s}

OutranksIn(bs, j, k) ==
    \/ bs[j].quality > bs[k].quality
    \/ /\ bs[j].quality = bs[k].quality
       /\ \/ /\ bs[j].rssi_dbm # None
             /\ bs[k].rssi_dbm = None \/ bs[j].rssi_dbm > bs[k].rssi_dbm
          \/ bs[j].rssi_dbm = bs[k].rssi_dbm /\ j < k

UnionOf(bs, S) == UNION {bs[j].security : j \in S}

\* acc is what the pass should have made of the first n.
KeepsIn(bs, s, acc, n) ==
    LET group == GroupIn(bs, s, n) IN
    /\ acc.best_index \in group
    /\ \A k \in group \ {acc.best_index} : OutranksIn(bs, acc.best_index, k)
    /\ acc.best_quality = bs[acc.best_index].quality
    /\ acc.best_rssi = bs[acc.best_index].rssi_dbm
    /\ acc.bss_count = Cardinality(group)
    /\ acc.security_union = UnionOf(bs, group)

\* The test RollIn makes.
IsBetter(bs, n, acc) ==
    \/ bs[n].quality > acc.best_quality
    \/ /\ bs[n].quality = acc.best_quality
       /\ rssi_tiebreak(bs[n].rssi_dbm, acc.best_rssi)

LEMMA RankedTypes ==
    ASSUME NEW bs \in Seq(RawBsses), NEW j \in 1..Len(bs)
    PROVE  bs[j].quality \in Nat /\ (bs[j].rssi_dbm # None => bs[j].rssi_dbm \in Int)
<1>1. bs[j] \in RawBsses
  OBVIOUS
<1>2. QED
  BY <1>1 DEF RawBsses, Optional

\* The BSS a later one is better than is outranked by it, and otherwise outranks it.
LEMMA BetterOutranks ==
    ASSUME NEW bs \in Seq(RawBsses), NEW n \in 1..Len(bs), NEW j \in 1..(n - 1), NEW acc,
           acc.best_quality = bs[j].quality, acc.best_rssi = bs[j].rssi_dbm
    PROVE  /\ IsBetter(bs, n, acc) => OutranksIn(bs, n, j)
           /\ ~IsBetter(bs, n, acc) => OutranksIn(bs, j, n)
<1>1. n \in 1..Len(bs) /\ j \in 1..Len(bs) /\ j < n /\ n \in Int /\ j \in Int
  OBVIOUS
<1>2. /\ bs[n].quality \in Nat /\ (bs[n].rssi_dbm # None => bs[n].rssi_dbm \in Int)
      /\ bs[j].quality \in Nat /\ (bs[j].rssi_dbm # None => bs[j].rssi_dbm \in Int)
  BY <1>1, RankedTypes
<1>3. QED
  BY <1>1, <1>2 DEF IsBetter, OutranksIn, rssi_tiebreak

LEMMA OutranksTransitive ==
    ASSUME NEW bs \in Seq(RawBsses), NEW n \in 1..Len(bs), NEW j \in 1..(n - 1),
           NEW k \in 1..Len(bs), OutranksIn(bs, n, j), OutranksIn(bs, j, k)
    PROVE  OutranksIn(bs, n, k)
<1>1. n \in 1..Len(bs) /\ j \in 1..Len(bs) /\ j < n /\ n \in Int /\ j \in Int /\ k \in Int
  OBVIOUS
<1>2. /\ bs[n].quality \in Nat /\ (bs[n].rssi_dbm # None => bs[n].rssi_dbm \in Int)
      /\ bs[j].quality \in Nat /\ (bs[j].rssi_dbm # None => bs[j].rssi_dbm \in Int)
      /\ bs[k].quality \in Nat /\ (bs[k].rssi_dbm # None => bs[k].rssi_dbm \in Int)
  BY <1>1, RankedTypes
<1>3. QED
  BY <1>1, <1>2 DEF OutranksIn

LEMMA GroupGrows ==
    ASSUME NEW bs, NEW s, NEW n \in Nat \ {0}
    PROVE  GroupIn(bs, s, n) = IF bs[n].ssid = s THEN GroupIn(bs, s, n - 1) \cup {n}
                               ELSE GroupIn(bs, s, n - 1)
<1>1. 1..n = (1..(n - 1)) \cup {n}
  OBVIOUS
<1>2. QED
  BY <1>1 DEF GroupIn

LEMMA GroupIsFinite ==
    ASSUME NEW bs, NEW s, NEW n \in Nat
    PROVE  IsFiniteSet(GroupIn(bs, s, n)) /\ GroupIn(bs, s, n) \subseteq 1..n
<1>1. GroupIn(bs, s, n) \subseteq 1..n
  BY DEF GroupIn
<1>2. IsFiniteSet(1..n)
  BY FS_Interval
<1>3. QED
  BY <1>1, <1>2, FS_Subset

LEMMA UnionGrows ==
    ASSUME NEW bs, NEW S, NEW n
    PROVE  UnionOf(bs, S \cup {n}) = UnionOf(bs, S) \cup bs[n].security
<1>1. ASSUME NEW x \in UnionOf(bs, S \cup {n}) PROVE x \in UnionOf(bs, S) \cup bs[n].security
  <2>1. PICK j \in S \cup {n} : x \in bs[j].security
    BY DEF UnionOf
  <2>2. QED
    BY <2>1 DEF UnionOf
<1>2. ASSUME NEW x \in UnionOf(bs, S) \cup bs[n].security PROVE x \in UnionOf(bs, S \cup {n})
  <2>1. PICK j \in S \cup {n} : x \in bs[j].security
    BY <1>2 DEF UnionOf
  <2>2. QED
    BY <2>1 DEF UnionOf
<1>3. QED
  BY <1>1, <1>2

\* The first BSS of its SSID.
LEMMA FirstIsKept ==
    ASSUME NEW bs, NEW n \in Nat \ {0}, NEW acc,
           bs[n].ssid \notin {bs[j].ssid : j \in 1..(n - 1)},
           acc.best_index = n, acc.best_quality = bs[n].quality,
           acc.best_rssi = bs[n].rssi_dbm, acc.bss_count = 1,
           acc.security_union = bs[n].security
    PROVE  KeepsIn(bs, bs[n].ssid, acc, n)
<1> DEFINE group == GroupIn(bs, bs[n].ssid, n)
<1>1. GroupIn(bs, bs[n].ssid, n - 1) = {}
  BY DEF GroupIn
<1>2. group = {n}
  BY <1>1, GroupGrows
<1>3. Cardinality(group) = 1
  BY <1>2, FS_Singleton
<1>4. UnionOf(bs, group) = bs[n].security
  BY <1>2 DEF UnionOf
<1>5. QED
  BY <1>2, <1>3, <1>4 DEF KeepsIn

\* A BSS of another SSID.
LEMMA OthersAreKept ==
    ASSUME NEW bs, NEW n \in Nat \ {0}, NEW s, NEW acc, s # bs[n].ssid,
           KeepsIn(bs, s, acc, n - 1)
    PROVE  KeepsIn(bs, s, acc, n)
BY GroupGrows DEF KeepsIn

\* A later BSS of an SSID.
LEMMA LaterIsKept ==
    ASSUME NEW bs \in Seq(RawBsses), NEW n \in 1..Len(bs), NEW acc, NEW new,
           KeepsIn(bs, bs[n].ssid, acc, n - 1),
           IsBetter(bs, n, acc) =>
               /\ new.best_index = n /\ new.best_quality = bs[n].quality
               /\ new.best_rssi = bs[n].rssi_dbm,
           ~IsBetter(bs, n, acc) =>
               /\ new.best_index = acc.best_index /\ new.best_quality = acc.best_quality
               /\ new.best_rssi = acc.best_rssi,
           new.bss_count = acc.bss_count + 1,
           new.security_union = acc.security_union \cup bs[n].security
    PROVE  KeepsIn(bs, bs[n].ssid, new, n)
<1> DEFINE before == GroupIn(bs, bs[n].ssid, n - 1)
           group == GroupIn(bs, bs[n].ssid, n)
           best == acc.best_index
<1>0. n \in Nat \ {0} /\ n - 1 \in Nat /\ n \in Int
  OBVIOUS
<1>1. group = before \cup {n}
  BY <1>0, GroupGrows
<1>2. IsFiniteSet(before) /\ before \subseteq 1..(n - 1)
  BY <1>0, GroupIsFinite
<1>3. /\ best \in before
      /\ \A k \in before \ {best} : OutranksIn(bs, best, k)
      /\ acc.best_quality = bs[best].quality
      /\ acc.best_rssi = bs[best].rssi_dbm
      /\ acc.bss_count = Cardinality(before)
      /\ acc.security_union = UnionOf(bs, before)
  BY DEF KeepsIn
<1>4. Cardinality(group) = Cardinality(before) + 1
  <2>1. n \notin before
    BY <1>0, <1>2
  <2>2. QED
    BY <1>1, <1>2, <2>1, FS_AddElement
<1>5. UnionOf(bs, group) = UnionOf(bs, before) \cup bs[n].security
  BY <1>1, UnionGrows
<1>6. best \in 1..(n - 1)
  BY <1>2, <1>3
<1>7. CASE IsBetter(bs, n, acc)
  <2>1. OutranksIn(bs, n, best)
    BY <1>3, <1>6, <1>7, BetterOutranks
  <2>2. ASSUME NEW k \in group \ {n} PROVE OutranksIn(bs, n, k)
    <3>1. k \in before /\ k \in 1..Len(bs)
      BY <1>0, <1>1, <1>2, <2>2
    <3>2. CASE k = best
      BY <2>1, <3>2
    <3>3. CASE k # best
      <4>1. OutranksIn(bs, best, k)
        BY <1>3, <3>1, <3>3
      <4>2. QED
        BY <1>6, <2>1, <3>1, <4>1, OutranksTransitive
    <3>4. QED
      BY <3>2, <3>3
  <2>3. QED
    BY <1>1, <1>3, <1>4, <1>5, <1>7, <2>2 DEF KeepsIn
<1>8. CASE ~IsBetter(bs, n, acc)
  <2>1. OutranksIn(bs, best, n)
    BY <1>3, <1>6, <1>8, BetterOutranks
  <2>2. \A k \in group \ {best} : OutranksIn(bs, best, k)
    BY <1>1, <1>3, <2>1
  <2>3. QED
    BY <1>1, <1>3, <1>4, <1>5, <1>8, <2>2 DEF KeepsIn
<1>9. QED
  BY <1>7, <1>8

-----------------------------------------------------------------------------
(* The invariant.                                                          *)

\* What the filter has looked at has an SSID.
Named ==
    /\ pc = "filter" => \A j \in 1..(next - 1) : HasSsid(bsses[j])
    /\ pc = "loop" => \A j \in 1..Len(bsses) : HasSsid(bsses[j])

IInv == TypeOK /\ Named /\ PassKeepsRanking

LEMMA ReportedEntry ==
    ASSUME TypeOK, report.platform # "mock"
    PROVE  report.platform \in Platforms /\ report.entries \in Seq(EntriesOf(report.platform))
BY ReportsAssumption DEF TypeOK, Platforms

LEMMA OneTakenOut ==
    ASSUME NEW S, NEW bs \in Seq(S), NEW n \in 1..Len(bs)
    PROVE  LET kept == SubSeq(bs, 1, n - 1) \o SubSeq(bs, n + 1, Len(bs)) IN
           /\ kept \in Seq(S) /\ Len(kept) = Len(bs) - 1
           /\ \A j \in 1..(n - 1) : kept[j] = bs[j]
<1> DEFINE front == SubSeq(bs, 1, n - 1)
           back == SubSeq(bs, n + 1, Len(bs))
<1>0. n \in Int /\ Len(bs) \in Nat /\ 1 <= n /\ n <= Len(bs)
  OBVIOUS
<1>1. /\ front \in Seq(S) /\ Len(front) = n - 1
      /\ \A j \in 1..(n - 1) : front[j] = bs[j]
  <2>1. \A i \in 1..(n - 1) : bs[i] \in S
    BY <1>0
  <2>2. QED
    BY <1>0, <2>1
<1>2. back \in Seq(S) /\ Len(back) = Len(bs) - n
  <2>1. \A i \in (n + 1)..Len(bs) : bs[i] \in S
    BY <1>0
  <2>2. QED
    BY <1>0, <2>1
<1> HIDE DEF front, back
<1>3. /\ front \o back \in Seq(S) /\ Len(front \o back) = Len(bs) - 1
      /\ \A j \in 1..(n - 1) : (front \o back)[j] = bs[j]
  <2>1. front \o back \in Seq(S) /\ Len(front \o back) = Len(bs) - 1
    BY <1>0, <1>1, <1>2
  <2>2. \A j \in 1..(n - 1) : (front \o back)[j] = front[j]
    BY <1>0, <1>1, <1>2
  <2>3. QED
    BY <1>1, <2>1, <2>2
<1>4. QED
  BY <1>3 DEF front, back

LEMMA ScanInit == Init => IInv
<1> SUFFICES ASSUME Init PROVE IInv
  OBVIOUS
<1>1. TypeOK
  BY DEF Init, TypeOK
<1>2. PassKeepsRanking
  BY DEF Init, PassKeepsRanking
<1>3. Named
  BY DEF Init, Named
<1>4. QED
  BY <1>1, <1>2, <1>3 DEF IInv

LEMMA TypeNext == TypeOK /\ [Next]_vars => TypeOK'
<1> SUFFICES ASSUME TypeOK, [Next]_vars PROVE TypeOK'
  OBVIOUS
<1>1. CASE FetchEntry
  <2>1. report.entries[next] \in EntriesOf(report.platform) /\ report.platform \in Platforms
    BY <1>1, ReportedEntry DEF FetchEntry, TypeOK
  <2>2. BssesOf(report.entries[next]) \in Seq(RawBsses)
    BY <2>1, BssTypes
  <2>3. bsses' \in Seq(RawBsses)
    BY <1>1, <2>2 DEF FetchEntry, TypeOK
  <2>4. QED
    BY <1>1, <2>3 DEF FetchEntry, TypeOK
<1>2. CASE FetchFails
  BY <1>2 DEF FetchFails, TypeOK, Platforms
<1>3. CASE FetchEnds
  <2>1. report.platform \in Platforms
    BY <1>3, ReportedEntry DEF FetchEnds
  <2>2. QED
    BY <1>3, <2>1 DEF FetchEnds, TypeOK
<1>4. CASE FilterHidden
  <2>1. CASE HasSsid(bsses[next])
    BY <1>4, <2>1 DEF FilterHidden, TypeOK
  <2>2. CASE ~HasSsid(bsses[next])
    <3>1. bsses' \in Seq(RawBsses) /\ Len(bsses') = Len(bsses) - 1
      <4>1. bsses \in Seq(RawBsses) /\ next \in 1..Len(bsses)
        BY <1>4 DEF FilterHidden, TypeOK
      <4>2. bsses' = SubSeq(bsses, 1, next - 1) \o SubSeq(bsses, next + 1, Len(bsses))
        BY <1>4, <2>2 DEF FilterHidden
      <4>3. QED
        BY <4>1, <4>2, OneTakenOut
    <3>2. QED
      BY <1>4, <2>2, <3>1 DEF FilterHidden, TypeOK
  <2>3. QED
    BY <2>1, <2>2
<1>5. CASE FilterEnds
  BY <1>5 DEF FilterEnds, TypeOK
<1>6. CASE RollIn
  BY <1>6 DEF RollIn, TypeOK
<1>7. CASE Emit
  BY <1>7 DEF Emit, TypeOK
<1>8. CASE MockListing
  BY <1>8 DEF MockListing, TypeOK
<1>9. CASE UNCHANGED vars
  BY <1>9 DEF vars, TypeOK
<1>10. QED
  BY <1>1, <1>2, <1>3, <1>4, <1>5, <1>6, <1>7, <1>8, <1>9 DEF Next

LEMMA NamedNext == TypeOK /\ Named /\ [Next]_vars => Named'
<1> SUFFICES ASSUME TypeOK, Named, [Next]_vars PROVE Named'
  OBVIOUS
<1>1. CASE FetchEntry \/ Emit \/ MockListing
  BY <1>1 DEF FetchEntry, Emit, MockListing, Named
<1>2. CASE FetchFails \/ FetchEnds
  BY <1>2 DEF FetchFails, FetchEnds, Named
<1>3. CASE FilterHidden
  <2>0. pc = "filter" /\ pc' = pc /\ bsses \in Seq(RawBsses) /\ next \in 1..Len(bsses) /\ next \in Nat
    BY <1>3 DEF FilterHidden, TypeOK
  <2>1. CASE HasSsid(bsses[next])
    BY <1>3, <2>0, <2>1 DEF FilterHidden, Named, HasSsid
  <2>2. CASE ~HasSsid(bsses[next])
    <3>1. /\ bsses' = SubSeq(bsses, 1, next - 1) \o SubSeq(bsses, next + 1, Len(bsses))
          /\ next' = next
      BY <1>3, <2>2 DEF FilterHidden
    <3>2. \A j \in 1..(next - 1) : bsses'[j] = bsses[j]
      BY <2>0, <3>1, OneTakenOut
    <3>3. QED
      BY <2>0, <3>1, <3>2 DEF Named, HasSsid
  <2>3. QED
    BY <2>1, <2>2
<1>4. CASE FilterEnds
  BY <1>4 DEF FilterEnds, TypeOK, Named, HasSsid
<1>5. CASE RollIn
  BY <1>5 DEF RollIn, Named, HasSsid
<1>6. CASE UNCHANGED vars
  BY <1>6 DEF vars, Named, HasSsid
<1>7. QED
  BY <1>1, <1>2, <1>3, <1>4, <1>5, <1>6 DEF Next

\* One BSS is rolled in.
LEMMA RollInKeeps == IInv /\ RollIn => PassKeepsRanking'
<1> SUFFICES ASSUME IInv, RollIn PROVE PassKeepsRanking'
  OBVIOUS
<1> DEFINE n == next
           new == bsses[next].ssid
<1>1. /\ pc = "loop" /\ bsses \in Seq(RawBsses) /\ n \in 1..Len(bsses) /\ n \in Nat \ {0}
      /\ bsses' = bsses /\ next' = n + 1 /\ next' - 1 = n
  BY DEF IInv, TypeOK, RollIn
<1>2. /\ DOMAIN by_ssid = {bsses[j].ssid : j \in 1..(n - 1)}
      /\ \A s \in DOMAIN by_ssid : KeepsIn(bsses, s, by_ssid[s], n - 1)
  BY <1>1 DEF IInv, PassKeepsRanking, KeepsIn, GroupIn, Group, Outranks, OutranksIn, UnionOf
<1>3. DOMAIN by_ssid' = DOMAIN by_ssid \cup {new}
      /\ \A s \in DOMAIN by_ssid' \ {new} : by_ssid'[s] = by_ssid[s]
  BY DEF RollIn
<1>4. DOMAIN by_ssid' = {bsses[j].ssid : j \in 1..n}
  <2>1. 1..n = (1..(n - 1)) \cup {n}
    BY <1>1
  <2>2. QED
    BY <1>2, <1>3, <2>1
<1>5. ASSUME NEW s \in DOMAIN by_ssid', s # new
      PROVE  KeepsIn(bsses, s, by_ssid'[s], n)
  BY <1>1, <1>2, <1>3, <1>5, OthersAreKept
<1>6. KeepsIn(bsses, new, by_ssid'[new], n)
  <2>1. CASE new \notin DOMAIN by_ssid
    <3>1. /\ by_ssid'[new].best_index = n
          /\ by_ssid'[new].best_quality = bsses[n].quality
          /\ by_ssid'[new].best_rssi = bsses[n].rssi_dbm
          /\ by_ssid'[new].bss_count = 1
          /\ by_ssid'[new].security_union = bsses[n].security
      BY <2>1 DEF RollIn, EntryFor
    <3>2. QED
      BY <1>1, <1>2, <2>1, <3>1, FirstIsKept
  <2>2. CASE new \in DOMAIN by_ssid
    <3> DEFINE acc == by_ssid[new]
    <3>1. KeepsIn(bsses, new, acc, n - 1)
      BY <1>2, <2>2
    <3>2. acc.bss_count \in Nat /\ acc.bss_count + 1 # 1
      <4>1. IsFiniteSet(GroupIn(bsses, new, n - 1)) /\ GroupIn(bsses, new, n - 1) # {}
        BY <1>1, <3>1, GroupIsFinite DEF KeepsIn
      <4>2. QED
        BY <3>1, <4>1, FS_CardinalityType, FS_EmptySet DEF KeepsIn
    <3>3. /\ IsBetter(bsses, n, acc) =>
                /\ by_ssid'[new].best_index = n
                /\ by_ssid'[new].best_quality = bsses[n].quality
                /\ by_ssid'[new].best_rssi = bsses[n].rssi_dbm
          /\ ~IsBetter(bsses, n, acc) =>
                /\ by_ssid'[new].best_index = acc.best_index
                /\ by_ssid'[new].best_quality = acc.best_quality
                /\ by_ssid'[new].best_rssi = acc.best_rssi
          /\ by_ssid'[new].bss_count = acc.bss_count + 1
          /\ by_ssid'[new].security_union = acc.security_union \cup bsses[n].security
      BY <2>2, <3>2 DEF RollIn, EntryFor, IsBetter
    <3>4. QED
      BY <1>1, <3>1, <3>3, LaterIsKept
  <2>3. QED
    BY <2>1, <2>2
<1>7. \A s \in DOMAIN by_ssid' : KeepsIn(bsses', s, by_ssid'[s], next' - 1)
  BY <1>1, <1>5, <1>6
<1>8. QED
  BY <1>1, <1>4, <1>7
     DEF PassKeepsRanking, KeepsIn, GroupIn, Group, Outranks, OutranksIn, UnionOf

LEMMA RankingNext == IInv /\ [Next]_vars => PassKeepsRanking'
<1> SUFFICES ASSUME IInv, [Next]_vars PROVE PassKeepsRanking'
  OBVIOUS
<1>1. CASE RollIn
  BY <1>1, RollInKeeps
<1>2. CASE FilterEnds
  <2>1. DOMAIN by_ssid' = {} /\ next' = 1
    BY <1>2 DEF FilterEnds, IInv, TypeOK
  <2>2. QED
    BY <2>1 DEF PassKeepsRanking
<1>3. CASE FetchEntry \/ FetchFails \/ FetchEnds \/ FilterHidden \/ Emit \/ MockListing
  <2>1. pc' # "loop"
    BY <1>3 DEF FetchEntry, FetchFails, FetchEnds, FilterHidden, Emit, MockListing
  <2>2. QED
    BY <2>1 DEF PassKeepsRanking
<1>4. CASE UNCHANGED vars
  <2> SUFFICES ASSUME pc' = "loop" PROVE PassKeepsRanking'
    BY DEF PassKeepsRanking
  <2>1. /\ pc' = pc /\ next' = next /\ bsses' = bsses /\ by_ssid' = by_ssid
    BY <1>4 DEF vars
  <2>2. /\ DOMAIN by_ssid = {bsses[j].ssid : j \in 1..(next - 1)}
        /\ \A s \in DOMAIN by_ssid : KeepsIn(bsses, s, by_ssid[s], next - 1)
    BY <2>1 DEF IInv, PassKeepsRanking, KeepsIn, GroupIn, Group, Outranks, OutranksIn, UnionOf
  <2>3. /\ DOMAIN by_ssid' = {bsses'[j].ssid : j \in 1..(next' - 1)}
        /\ \A s \in DOMAIN by_ssid' : KeepsIn(bsses', s, by_ssid'[s], next' - 1)
    BY <2>1, <2>2
  <2>4. QED
    BY <2>3 DEF PassKeepsRanking, KeepsIn, GroupIn, Group, Outranks, OutranksIn, UnionOf
<1>5. QED
  BY <1>1, <1>2, <1>3, <1>4 DEF Next

\* IInv is inductive: the accumulators are empty until the pass starts, and
\* each of its steps extends what the ranking says of one SSID.
THEOREM ScanInvariantHolds == Spec => []IInv
<1>1. IInv /\ [Next]_vars => IInv'
  BY TypeNext, NamedNext, RankingNext DEF IInv
<1>2. QED
  BY ScanInit, <1>1, PTL DEF Spec

\* Whatever the systems report, everything rollup is given is a well-formed
\* BSS, and no index leaves the list.
THEOREM ScanTypeCorrect == Spec => []TypeOK
<1>1. IInv => TypeOK
  BY DEF IInv
<1>2. QED
  BY <1>1, ScanInvariantHolds, PTL

\* rollup, for reports of any length: its one pass over the BSSes keeps for
\* every SSID the BSS the documented ranking puts first, and the number and the
\* security of all of them.
THEOREM PassKeeps == Spec => []PassKeepsRanking
<1>1. IInv => PassKeepsRanking
  BY DEF IInv
<1>2. QED
  BY <1>1, ScanInvariantHolds, PTL

\* No BSS that is rolled up is open and something else.
AloneInv == bsses \in Seq(AloneOn(report.platform))

LEMMA AloneNext == TypeOK /\ AloneInv /\ [Next]_vars => AloneInv'
<1> SUFFICES ASSUME TypeOK, AloneInv, [Next]_vars PROVE AloneInv'
  OBVIOUS
<1> DEFINE S == AloneOn(report.platform)
<1>1. bsses \in Seq(S)
  BY DEF AloneInv
<1>2. report' = report
  BY DEF Next, vars, FetchEntry, FetchFails, FetchEnds, FilterHidden, FilterEnds, RollIn,
         Emit, MockListing
<1> SUFFICES bsses' \in Seq(S)
  BY <1>2 DEF AloneInv
<1>3. CASE FetchEntry
  <2>1. report.entries[next] \in EntriesOf(report.platform) /\ report.platform \in Platforms
    BY <1>3, ReportedEntry DEF FetchEntry, TypeOK
  <2>2. BssesOf(report.entries[next]) \in Seq(S)
    BY <2>1, EntryAlone
  <2> HIDE DEF S
  <2>3. QED
    BY <1>1, <1>3, <2>2 DEF FetchEntry
<1>4. CASE FilterHidden
  <2> HIDE DEF S
  <2>1. CASE HasSsid(bsses[next])
    BY <1>1, <1>4, <2>1 DEF FilterHidden
  <2>2. CASE ~HasSsid(bsses[next])
    <3>1. next \in 1..Len(bsses)
      BY <1>4 DEF FilterHidden, TypeOK
    <3>2. bsses' = SubSeq(bsses, 1, next - 1) \o SubSeq(bsses, next + 1, Len(bsses))
      BY <1>4, <2>2 DEF FilterHidden
    <3>3. QED
      BY <1>1, <3>1, <3>2, OneTakenOut
  <2>3. QED
    BY <2>1, <2>2
<1>5. CASE FetchFails
  BY <1>5 DEF FetchFails
<1>6. CASE FetchEnds \/ FilterEnds \/ RollIn \/ Emit \/ MockListing \/ UNCHANGED vars
  BY <1>1, <1>6 DEF FetchEnds, FilterEnds, RollIn, Emit, MockListing, vars
<1>7. QED
  BY <1>3, <1>4, <1>5, <1>6 DEF Next

-----------------------------------------------------------------------------
(* The order of a listing.                                                 *)

LEMMA Bytes ==
    ASSUME NEW a \in Ssids
    PROVE  Len(a) \in Nat /\ \A j \in 1..Len(a) : a[j] \in Int
<1> DEFINE Byte == 0..255
<1>1. a \in Seq(Byte) /\ \A x \in Byte : x \in Int
  BY DEF Ssids
<1> HIDE DEF Byte
<1>2. QED
  BY <1>1

LEMMA BytesIrreflexive == ASSUME NEW a \in Ssids PROVE ~BytesBefore(a, a)
<1> SUFFICES ASSUME NEW n \in 0..Len(a), n < Len(a), a[n + 1] < a[n + 1] PROVE FALSE
  BY Bytes DEF BytesBefore
<1>1. n + 1 \in 1..Len(a)
  BY Bytes
<1>2. a[n + 1] \in Int
  BY <1>1, Bytes
<1>3. QED
  BY <1>2

LEMMA BytesTransitive ==
    ASSUME NEW a \in Ssids, NEW b \in Ssids, NEW c \in Ssids,
           BytesBefore(a, b), BytesBefore(b, c)
    PROVE  BytesBefore(a, c)
<1>1. PICK m \in 0..Len(a) : /\ m < Len(b)
                             /\ \A j \in 1..m : a[j] = b[j]
                             /\ m = Len(a) \/ a[m + 1] < b[m + 1]
  BY DEF BytesBefore
<1>2. PICK n \in 0..Len(b) : /\ n < Len(c)
                             /\ \A j \in 1..n : b[j] = c[j]
                             /\ n = Len(b) \/ b[n + 1] < c[n + 1]
  BY DEF BytesBefore
<1>3. /\ Len(a) \in Nat /\ Len(b) \in Nat /\ Len(c) \in Nat /\ m \in Nat /\ n \in Nat
      /\ m <= Len(a) /\ n <= Len(b)
  BY Bytes
<1>4. /\ \A j \in 1..Len(a) : a[j] \in Int
      /\ \A j \in 1..Len(b) : b[j] \in Int
      /\ \A j \in 1..Len(c) : c[j] \in Int
  BY Bytes
<1>5. CASE m < n
  <2>1. m \in 0..Len(a) /\ m < Len(c) /\ \A j \in 1..m : a[j] = c[j]
    BY <1>1, <1>2, <1>3, <1>5
  <2>2. m = Len(a) \/ a[m + 1] < c[m + 1]
    BY <1>1, <1>2, <1>3, <1>5
  <2>3. QED
    BY <2>1, <2>2 DEF BytesBefore
<1>6. CASE n < m
  <2>1. n \in 0..Len(a) /\ n < Len(c) /\ \A j \in 1..n : a[j] = c[j]
    BY <1>1, <1>2, <1>3, <1>6
  <2>2. a[n + 1] < c[n + 1]
    BY <1>1, <1>2, <1>3, <1>6
  <2>3. QED
    BY <2>1, <2>2 DEF BytesBefore
<1>7. CASE m = n
  <2>1. m \in 0..Len(a) /\ m < Len(c) /\ \A j \in 1..m : a[j] = c[j]
    BY <1>1, <1>2, <1>3, <1>7
  <2>2. m = Len(a) \/ a[m + 1] < c[m + 1]
    <3>1. b[m + 1] < c[m + 1]
      BY <1>1, <1>2, <1>3, <1>7
    <3>2. CASE m # Len(a)
      <4>1. m + 1 \in 1..Len(a) /\ m + 1 \in 1..Len(b) /\ m + 1 \in 1..Len(c)
        BY <1>1, <1>3, <2>1, <3>2
      <4>2. a[m + 1] \in Int /\ b[m + 1] \in Int /\ c[m + 1] \in Int
        BY <1>4, <4>1
      <4>3. QED
        BY <1>1, <3>1, <3>2, <4>2
    <3>3. QED
      BY <3>2
  <2>3. QED
    BY <2>1, <2>2 DEF BytesBefore
<1>8. QED
  BY <1>3, <1>5, <1>6, <1>7

\* a and b agree on the first n, and on no more.
DifferAfter(a, b, n) ==
    /\ n <= Len(a) /\ n <= Len(b)
    /\ \A j \in 1..n : a[j] = b[j]
    /\ \/ n = Len(a) /\ n < Len(b)
       \/ n = Len(b) /\ n < Len(a)
       \/ n < Len(a) /\ n < Len(b) /\ a[n + 1] # b[n + 1]

LEMMA FirstDifference ==
    ASSUME NEW a \in Ssids, NEW b \in Ssids, a # b
    PROVE  \E n \in Nat : DifferAfter(a, b, n)
<1> DEFINE Agree(j) == j <= Len(a) /\ j <= Len(b) /\ a[j] = b[j]
           Less == {ss \in Nat \X Nat : ss[1] < ss[2]}
           Differ == {j \in Nat : j >= 1 /\ ~Agree(j)}
<1>1. Len(a) \in Nat /\ Len(b) \in Nat
  BY Bytes
<1>2. IsWellFoundedOn(Less, Nat)
  BY NatLessThanWellFounded, Zenon DEF OpToRel
<1>3. Len(a) + 1 \in Differ
  BY <1>1
<1> HIDE DEF Less
<1>4. PICK d \in Differ : \A j \in Differ : <<j, d>> \notin Less
  <2>1. Differ \subseteq Nat /\ Differ # {}
    BY <1>3
  <2> HIDE DEF Differ
  <2>2. QED
    BY <1>2, <2>1, WFMin, Zenon
<1>5. ASSUME NEW j \in 1..(d - 1) PROVE Agree(j)
  <2>1. j \in Nat /\ d \in Nat /\ j < d /\ j >= 1
    BY <1>4
  <2>2. <<j, d>> \in Less
    BY <2>1 DEF Less
  <2>3. QED
    BY <1>4, <2>1, <2>2
<1> DEFINE n == d - 1
<1>6. n \in Nat /\ \A j \in 1..n : a[j] = b[j]
  BY <1>5
<1>7. n <= Len(a) /\ n <= Len(b)
  <2>1. CASE n = 0
    BY <1>1, <2>1
  <2>2. CASE n # 0
    <3>1. n \in 1..n
      BY <1>6, <2>2
    <3>2. QED
      BY <1>5, <3>1
  <2>3. QED
    BY <2>1, <2>2
<1>8. ~Agree(n + 1)
  BY <1>4
<1>9. n # Len(a) \/ n # Len(b)
  <2> SUFFICES ASSUME n = Len(a), n = Len(b) PROVE FALSE
    OBVIOUS
  <2>1. a = b
    BY <1>1, <1>6 DEF Ssids
  <2>2. QED
    BY <2>1
<1>10. \/ n = Len(a) /\ n < Len(b)
       \/ n = Len(b) /\ n < Len(a)
       \/ n < Len(a) /\ n < Len(b) /\ a[n + 1] # b[n + 1]
  BY <1>1, <1>6, <1>7, <1>8, <1>9
<1>11. QED
  BY <1>6, <1>7, <1>10 DEF DifferAfter

LEMMA BytesTotal ==
    ASSUME NEW a \in Ssids, NEW b \in Ssids, a # b
    PROVE  BytesBefore(a, b) \/ BytesBefore(b, a)
<1>0. PICK n \in Nat : DifferAfter(a, b, n)
  BY FirstDifference
<1>1. /\ n <= Len(a) /\ n <= Len(b)
      /\ \A j \in 1..n : a[j] = b[j]
      /\ \/ n = Len(a) /\ n < Len(b)
         \/ n = Len(b) /\ n < Len(a)
         \/ n < Len(a) /\ n < Len(b) /\ a[n + 1] # b[n + 1]
  BY <1>0 DEF DifferAfter
<1>2. Len(a) \in Nat /\ Len(b) \in Nat /\ n \in 0..Len(a) /\ n \in 0..Len(b)
  BY <1>1, Bytes
<1>3. CASE n = Len(a) /\ n < Len(b)
  BY <1>1, <1>2, <1>3 DEF BytesBefore
<1>4. CASE n = Len(b) /\ n < Len(a)
  BY <1>1, <1>2, <1>4 DEF BytesBefore
<1>5. CASE n < Len(a) /\ n < Len(b) /\ a[n + 1] # b[n + 1]
  <2>1. n + 1 \in 1..Len(a) /\ n + 1 \in 1..Len(b)
    BY <1>2, <1>5
  <2>2. a[n + 1] \in Int /\ b[n + 1] \in Int
    BY <2>1, Bytes
  <2>3. a[n + 1] < b[n + 1] \/ b[n + 1] < a[n + 1]
    BY <1>5, <2>2
  <2>4. QED
    BY <1>1, <1>2, <1>5, <2>3 DEF BytesBefore
<1>6. QED
  BY <1>1, <1>3, <1>4, <1>5

\* Before orders the networks of N: each but itself it precedes or follows.
Orders(N) ==
    /\ \A m \in N : ~Before(m, m)
    /\ \A l, m, n \in N : Before(l, m) /\ Before(m, n) => Before(l, n)
    /\ \A m, n \in N : m # n => Before(m, n) \/ Before(n, m)

\* seq is what sort_by makes of N.
Sorts(seq, N) ==
    /\ \A n \in N : \E j \in DOMAIN seq : seq[j] = n
    /\ \A j, k \in DOMAIN seq : j < k => ~Before(seq[k], seq[j])

\* How many networks of N there are up to n.
UpTo(N, n) == {m \in N : m = n \/ Before(m, n)}
RankIn(N) == [n \in N |-> Cardinality(UpTo(N, n))]

LEMMA RanksGrow ==
    ASSUME NEW N, IsFiniteSet(N), Orders(N)
    PROVE  /\ RankIn(N) \in [N -> 1..Cardinality(N)]
           /\ \A m, n \in N : Before(m, n) => RankIn(N)[m] < RankIn(N)[n]
<1>0. Cardinality(N) \in Nat
  BY FS_CardinalityType
<1>1. ASSUME NEW n \in N
      PROVE  /\ IsFiniteSet(UpTo(N, n)) /\ Cardinality(UpTo(N, n)) \in Nat
             /\ Cardinality(UpTo(N, n)) \in 1..Cardinality(N)
  <2>1. UpTo(N, n) \in SUBSET N /\ UpTo(N, n) # {}
    BY DEF UpTo
  <2>2. IsFiniteSet(UpTo(N, n)) /\ Cardinality(UpTo(N, n)) <= Cardinality(N)
    BY <2>1, FS_Subset
  <2>3. Cardinality(UpTo(N, n)) \in Nat /\ Cardinality(UpTo(N, n)) # 0
    BY <2>1, <2>2, FS_CardinalityType, FS_EmptySet
  <2>4. QED
    BY <1>0, <2>2, <2>3
<1>2. ASSUME NEW m \in N, NEW n \in N, Before(m, n)
      PROVE  Cardinality(UpTo(N, m)) < Cardinality(UpTo(N, n))
  <2>1. UpTo(N, m) \in SUBSET UpTo(N, n)
    BY <1>2 DEF Orders, UpTo
  <2>2. n \in UpTo(N, n) /\ n \notin UpTo(N, m)
    BY <1>2 DEF Orders, UpTo
  <2>3. /\ Cardinality(UpTo(N, m)) <= Cardinality(UpTo(N, n))
        /\ Cardinality(UpTo(N, m)) # Cardinality(UpTo(N, n))
    BY <1>1, <2>1, <2>2, FS_Subset
  <2>4. QED
    BY <1>1, <2>3
<1>3. QED
  BY <1>1, <1>2 DEF RankIn

LEMMA RanksReached ==
    ASSUME NEW N, IsFiniteSet(N), Orders(N)
    PROVE  /\ \A k \in 1..Cardinality(N) : \E n \in N : RankIn(N)[n] = k
           /\ \A m, n \in N : RankIn(N)[m] = RankIn(N)[n] => m = n
<1> DEFINE rank == RankIn(N)
<1>0. Cardinality(N) \in Nat
  BY FS_CardinalityType
<1>1. rank \in [N -> 1..Cardinality(N)]
  BY RanksGrow
<1>2. ASSUME NEW m \in N, NEW n \in N, m # n PROVE rank[m] # rank[n]
  <2>1. rank[m] \in Int /\ rank[n] \in Int
    BY <1>0, <1>1
  <2>2. rank[m] < rank[n] \/ rank[n] < rank[m]
    BY <1>2, RanksGrow DEF Orders
  <2>3. QED
    BY <2>1, <2>2
<1> HIDE DEF rank
<1>3. rank \in Injection(N, 1..Cardinality(N))
  BY <1>1, <1>2, Fun_IsInj
<1>4. IsFiniteSet(1..Cardinality(N)) /\ Cardinality(1..Cardinality(N)) = Cardinality(N)
  BY <1>0, FS_Interval
<1>5. rank \in Surjection(N, 1..Cardinality(N))
  BY <1>3, <1>4, FS_Injection
<1>6. \A k \in 1..Cardinality(N) : \E n \in N : rank[n] = k
  BY <1>5, Fun_SurjectionProperties
<1>7. QED
  BY <1>2, <1>6 DEF rank

\* There is a sorted sequence, so Sorted is one.
LEMMA SortedSorts ==
    ASSUME NEW N, IsFiniteSet(N), Orders(N)
    PROVE  Sorted(N) \in [1..Cardinality(N) -> N] /\ Sorts(Sorted(N), N)
<1> DEFINE seq == [k \in 1..Cardinality(N) |-> CHOOSE n \in N : RankIn(N)[n] = k]
<1>0. Cardinality(N) \in Nat
  BY FS_CardinalityType
<1>1. \A k \in 1..Cardinality(N) : seq[k] \in N /\ RankIn(N)[seq[k]] = k
  BY RanksReached
<1>2. seq \in [1..Cardinality(N) -> N] /\ DOMAIN seq = 1..Cardinality(N)
  BY <1>1
<1> HIDE DEF seq
<1>3. \A n \in N : \E j \in DOMAIN seq : seq[j] = n
  <2> TAKE n \in N
  <2>1. RankIn(N)[n] \in 1..Cardinality(N)
    BY RanksGrow
  <2>2. seq[RankIn(N)[n]] = n
    BY <1>1, <2>1, RanksReached
  <2>3. QED
    BY <1>2, <2>1, <2>2
<1>4. ASSUME NEW j \in DOMAIN seq, NEW k \in DOMAIN seq, j < k, Before(seq[k], seq[j])
      PROVE  FALSE
  <2>1. k < j
    BY <1>1, <1>2, <1>4, RanksGrow
  <2>2. j \in Int /\ k \in Int
    BY <1>0, <1>2
  <2>3. QED
    BY <1>4, <2>1, <2>2
<1>5. Sorts(seq, N)
  BY <1>3, <1>4 DEF Sorts
<1>6. \E s \in [1..Cardinality(N) -> N] : Sorts(s, N)
  BY <1>2, <1>5
<1>7. Sorted(N) = CHOOSE s \in [1..Cardinality(N) -> N] : Sorts(s, N)
  BY DEF Sorted, Sorts
<1>8. QED
  BY <1>6, <1>7

\* As the order is strict, it lists each network once, in its order.
LEMMA SortedIsStrict ==
    ASSUME NEW N, IsFiniteSet(N), Orders(N)
    PROVE  /\ \A j \in DOMAIN Sorted(N) : Sorted(N)[j] \in N
           /\ \A j, k \in DOMAIN Sorted(N) : j < k =>
                  Sorted(N)[j] # Sorted(N)[k] /\ Before(Sorted(N)[j], Sorted(N)[k])
<1> DEFINE seq == Sorted(N)
           K == Cardinality(N)
<1>0. K \in Nat
  BY FS_CardinalityType
<1>1. seq \in [1..K -> N] /\ Sorts(seq, N)
  BY SortedSorts
<1>2. DOMAIN seq = 1..K
  BY <1>1
<1> HIDE DEF seq, K
<1>3. seq \in Surjection(1..K, N)
  BY <1>1, <1>2, Fun_IsSurj DEF Sorts
<1>4. IsFiniteSet(1..K) /\ Cardinality(1..K) = Cardinality(N)
  BY <1>0, FS_Interval DEF K
<1>5. \A j, k \in 1..K : seq[j] = seq[k] => j = k
  <2>1. seq \in Injection(1..K, N)
    BY <1>3, <1>4, FS_SurjSameCardinalityImpliesInj, Zenon
  <2>2. QED
    BY <2>1, Fun_InjectionProperties, Zenon
<1>6. ASSUME NEW j \in 1..K, NEW k \in 1..K, j < k
      PROVE  seq[j] # seq[k] /\ Before(seq[j], seq[k])
  <2>1. j # k /\ seq[j] \in N /\ seq[k] \in N
    BY <1>0, <1>1, <1>6
  <2>2. seq[j] # seq[k] /\ ~Before(seq[k], seq[j])
    BY <1>1, <1>2, <1>5, <1>6, <2>1 DEF Sorts
  <2>3. QED
    BY <2>1, <2>2 DEF Orders
<1>7. QED
  BY <1>1, <1>2, <1>6 DEF seq

-----------------------------------------------------------------------------
(* The listing.                                                            *)

\* The connected network has the SSID of the context.
ConnectedIs(m, connected) == m.is_connected => connected = m.ssid

\* Networks with an SSID each, of which the connected one has the context's.
Listable(N, connected) ==
    /\ IsFiniteSet(N)
    /\ \A m \in N : /\ m.ssid \in Ssids /\ m.signal_quality \in Nat
                     /\ ConnectedIs(m, connected)
    /\ \A m, n \in N : m.ssid = n.ssid => m = n

LEMMA ListableIsOrdered ==
    ASSUME NEW N, NEW connected, Listable(N, connected)
    PROVE  Orders(N)
<1>1. \A m \in N : ~Before(m, m)
  BY BytesIrreflexive DEF Listable, Before
<1>2. ASSUME NEW l \in N, NEW m \in N, NEW n \in N, Before(l, m), Before(m, n)
      PROVE  Before(l, n)
  <2>1. /\ l.signal_quality \in Nat /\ m.signal_quality \in Nat /\ n.signal_quality \in Nat
        /\ l.ssid \in Ssids /\ m.ssid \in Ssids /\ n.ssid \in Ssids
    BY DEF Listable
  <2>2. BytesBefore(l.ssid, m.ssid) /\ BytesBefore(m.ssid, n.ssid) => BytesBefore(l.ssid, n.ssid)
    BY <2>1, BytesTransitive
  <2>3. QED
    BY <1>2, <2>1, <2>2 DEF Before
<1>3. ASSUME NEW m \in N, NEW n \in N, m # n PROVE Before(m, n) \/ Before(n, m)
  <2>1. /\ m.signal_quality \in Nat /\ n.signal_quality \in Nat
        /\ m.ssid \in Ssids /\ n.ssid \in Ssids /\ m.ssid # n.ssid
    BY <1>3 DEF Listable
  <2>2. BytesBefore(m.ssid, n.ssid) \/ BytesBefore(n.ssid, m.ssid)
    BY <2>1, BytesTotal
  <2>3. QED
    BY <2>1, <2>2 DEF Before
<1>4. QED
  BY <1>1, <1>2, <1>3 DEF Orders

NotBoth(m, n) == ~(m.is_connected /\ n.is_connected)

\* What ListingIsOrdered says of two networks, the first listed earlier.
Ordered(m, n) ==
    /\ m.signal_quality >= n.signal_quality
    /\ m.signal_quality = n.signal_quality => BytesBefore(m.ssid, n.ssid)
    /\ m.ssid # n.ssid
    /\ NotBoth(m, n)

LEMMA SortedIsListing ==
    ASSUME NEW N, NEW connected, Listable(N, connected)
    PROVE  /\ \A j \in DOMAIN Sorted(N) : Sorted(N)[j] \in N
           /\ \A j, k \in DOMAIN Sorted(N) : j < k => Ordered(Sorted(N)[j], Sorted(N)[k])
<1>1. IsFiniteSet(N) /\ Orders(N)
  BY ListableIsOrdered DEF Listable
<1>2. /\ \A j \in DOMAIN Sorted(N) : Sorted(N)[j] \in N
      /\ \A j, k \in DOMAIN Sorted(N) : j < k =>
             Sorted(N)[j] # Sorted(N)[k] /\ Before(Sorted(N)[j], Sorted(N)[k])
  BY <1>1, SortedIsStrict
<1>3. ASSUME NEW m \in N, NEW n \in N, m # n, Before(m, n) PROVE Ordered(m, n)
  <2>1. /\ m.signal_quality \in Nat /\ n.signal_quality \in Nat /\ m.ssid # n.ssid
        /\ ConnectedIs(m, connected) /\ ConnectedIs(n, connected)
    BY <1>3 DEF Listable
  <2>2. NotBoth(m, n)
    BY <2>1, Zenon DEF ConnectedIs, NotBoth
  <2>3. QED
    BY <1>3, <2>1, <2>2 DEF Before, Ordered
<1>4. QED
  BY <1>2, <1>3

\* What rollup lists of the accumulators.
LEMMA EmitIsOrdered ==
    IInv /\ Emit =>
        /\ ListingIsOrdered'
        /\ \A j \in DOMAIN out' :
              \E s \in DOMAIN by_ssid : out'[j] = VisibleNetwork(by_ssid[s])
<1> SUFFICES ASSUME IInv, Emit
             PROVE  /\ ListingIsOrdered'
                    /\ \A j \in DOMAIN out' :
                          \E s \in DOMAIN by_ssid : out'[j] = VisibleNetwork(by_ssid[s])
  OBVIOUS
<1> DEFINE n == Len(bsses)
           Net(s) == VisibleNetwork(by_ssid[s])
           N == {Net(s) : s \in DOMAIN by_ssid}
<1>1. /\ pc = "loop" /\ bsses \in Seq(RawBsses) /\ n \in Nat /\ next - 1 = n
      /\ report.platform # "mock"
  BY DEF IInv, TypeOK, Emit, Platforms
<1>2. /\ DOMAIN by_ssid = {bsses[j].ssid : j \in 1..n}
      /\ \A s \in DOMAIN by_ssid : KeepsIn(bsses, s, by_ssid[s], n)
  BY <1>1 DEF IInv, PassKeepsRanking, KeepsIn, GroupIn, Group, Outranks, OutranksIn, UnionOf
<1>3. ASSUME NEW s \in DOMAIN by_ssid
      PROVE  /\ Net(s).ssid = s /\ s \in Ssids /\ s # <<>> /\ Net(s).signal_quality \in Nat
             /\ ConnectedIs(Net(s), ctx.connected_ssid)
             /\ Net(s).bss_count > 0
  <2> DEFINE acc == by_ssid[s]
             best == bsses[acc.best_index]
  <2>1. KeepsIn(bsses, s, acc, n)
    BY <1>2
  <2>2. acc.best_index \in 1..n /\ best.ssid = s /\ best \in RawBsses /\ HasSsid(best)
    BY <1>1, <2>1 DEF KeepsIn, GroupIn, IInv, Named
  <2>3. best.ssid \in Ssids /\ best.quality \in Nat
    BY <2>2 DEF RawBsses
  <2>4. acc.bss_count \in Nat /\ acc.bss_count # 0
    <3>1. IsFiniteSet(GroupIn(bsses, s, n)) /\ GroupIn(bsses, s, n) # {}
      BY <1>1, <2>1, GroupIsFinite DEF KeepsIn
    <3>2. QED
      BY <2>1, <3>1, FS_CardinalityType, FS_EmptySet DEF KeepsIn
  <2>5. acc.best_quality = best.quality
    BY <2>1 DEF KeepsIn
  <2>6. ConnectedIs(Net(s), ctx.connected_ssid)
    BY Zenon DEF VisibleNetwork, ConnectedIs
  <2>7. QED
    BY <2>2, <2>3, <2>4, <2>5, <2>6 DEF VisibleNetwork, HasSsid
<1>4. IsFiniteSet(N)
  <2> DEFINE f == [j \in 1..n |-> Net(bsses[j].ssid)]
  <2>1. f \in [1..n -> N] /\ \A m \in N : \E j \in 1..n : f[j] = m
    <3> HIDE DEF Net
    <3>1. QED
      BY <1>2
  <2> HIDE DEF f, N
  <2>2. f \in Surjection(1..n, N)
    BY <2>1, Fun_IsSurj
  <2>3. QED
    BY <1>1, <2>2, FS_Surjection, FS_Interval
<1> HIDE DEF Net
<1>5. Listable(N, ctx.connected_ssid)
  BY <1>3, <1>4 DEF Listable
<1>6. out' = Sorted(N) /\ report' = report
  BY DEF Emit, Net
<1>7. \A m \in N : m.ssid # <<>> /\ m.bss_count > 0
  BY <1>3
<1> HIDE DEF N
<1>8. /\ \A j \in DOMAIN out' : out'[j] \in N
      /\ \A j, k \in DOMAIN out' : j < k => Ordered(out'[j], out'[k])
  BY <1>5, <1>6, SortedIsListing
<1>9. ListingIsOrdered'
  BY <1>7, <1>8 DEF ListingIsOrdered, Ordered, NotBoth
<1>10. \A m \in N : \E s \in DOMAIN by_ssid : m = Net(s)
  BY DEF N
<1>11. QED
  BY <1>8, <1>9, <1>10 DEF Net

\* The mock's comparison is the roll-up's, of any networks with numbers for
\* qualities, and so is its sort.
LEMMA MockSortsAlike ==
    ASSUME NEW N, \A m \in N : m.signal_quality \in Nat
    PROVE  MockSorted(N) = Sorted(N)
<1>1. \A m, n \in N : MockBefore(m, n) <=> Before(m, n)
  BY DEF MockBefore, Before
<1> DEFINE RollupSorts(seq) ==
             /\ \A n \in N : \E j \in DOMAIN seq : seq[j] = n
             /\ \A j, k \in DOMAIN seq : j < k => ~Before(seq[k], seq[j])
           MockSorts(seq) ==
             /\ \A n \in N : \E j \in DOMAIN seq : seq[j] = n
             /\ \A j, k \in DOMAIN seq : j < k => ~MockBefore(seq[k], seq[j])
<1>2. \A seq \in [1..Cardinality(N) -> N] : MockSorts(seq) <=> RollupSorts(seq)
  BY <1>1
<1> HIDE DEF RollupSorts, MockSorts
<1>3. (CHOOSE seq \in [1..Cardinality(N) -> N] : MockSorts(seq)) =
      (CHOOSE seq \in [1..Cardinality(N) -> N] : RollupSorts(seq))
  BY <1>2
<1>4. QED
  BY <1>3 DEF MockSorted, Sorted, RollupSorts, MockSorts

\* What the mock lists of its map.
LEMMA MockIsOrdered == IInv /\ MockListing => ListingIsOrdered'
<1> SUFFICES ASSUME IInv, MockListing PROVE ListingIsOrdered'
  OBVIOUS
<1> DEFINE es == report.entries
           n == Len(es)
           Listed(e) ==
             [ssid |-> e.ssid, signal_quality |-> e.props.quality,
              security |-> e.props.security, bss_count |-> e.props.bss_count,
              is_connected |-> ctx.connected_ssid = e.ssid,
              has_saved_profile |-> e.ssid \in ctx.saved_ssids,
              rssi_dbm |-> e.props.rssi_dbm, bssid |-> e.props.bssid,
              frequency_mhz |-> e.props.frequency_mhz]
           N == {Listed(es[j]) : j \in DOMAIN es}
<1>1. /\ es \in Seq(MockEntries) /\ report.platform = "mock"
      /\ \A j, k \in DOMAIN es : es[j].ssid = es[k].ssid => j = k
  BY ReportsAssumption DEF MockListing, IInv, TypeOK, EntriesOf
<1>2. n \in Nat /\ DOMAIN es = 1..n /\ \A j \in 1..n : es[j] \in MockEntries
  BY <1>1
<1>3. ASSUME NEW e \in MockEntries
      PROVE  /\ Listed(e).ssid = e.ssid /\ e.ssid \in Ssids /\ Listed(e).signal_quality \in Nat
             /\ ConnectedIs(Listed(e), ctx.connected_ssid)
  <2>1. ConnectedIs(Listed(e), ctx.connected_ssid)
    BY Zenon DEF ConnectedIs
  <2>2. QED
    BY <2>1 DEF MockEntries
<1>4. out' = Sorted(N) /\ report' = report
  <2>1. out' = MockSorted(N) /\ report' = report
    BY DEF MockListing
  <2>2. ASSUME NEW m \in N PROVE m.signal_quality \in Nat
    <3>1. PICK j \in DOMAIN es : m = Listed(es[j])
      OBVIOUS
    <3> HIDE DEF Listed
    <3>2. QED
      BY <1>2, <1>3, <3>1
  <2> HIDE DEF N
  <2>3. QED
    BY <2>1, <2>2, MockSortsAlike
<1> HIDE DEF Listed
<1>5. IsFiniteSet(N)
  <2> DEFINE f == [j \in 1..n |-> Listed(es[j])]
  <2>1. f \in [1..n -> N] /\ \A m \in N : \E j \in 1..n : f[j] = m
    BY <1>2
  <2> HIDE DEF f, N
  <2>2. f \in Surjection(1..n, N)
    BY <2>1, Fun_IsSurj
  <2>3. QED
    BY <1>2, <2>2, FS_Surjection, FS_Interval
<1>6. Listable(N, ctx.connected_ssid)
  BY <1>1, <1>2, <1>3, <1>5 DEF Listable
<1> HIDE DEF N
<1>7. \A j, k \in DOMAIN out' : j < k => Ordered(out'[j], out'[k])
  BY <1>4, <1>6, SortedIsListing
<1>8. QED
  BY <1>1, <1>4, <1>7 DEF ListingIsOrdered, Ordered, NotBoth

\* A listing has each SSID once, strongest first and then by the bytes of the
\* SSID, with at most one network connected, and rolled up each is named and
\* has a BSS: whatever the systems report, in any order and number.
THEOREM ListingOrdered == Spec => []ListingIsOrdered
<1>1. Init => ListingIsOrdered
  BY DEF Init, ListingIsOrdered
<1>2. IInv /\ ListingIsOrdered /\ [Next]_vars => ListingIsOrdered'
  <2> SUFFICES ASSUME IInv, ListingIsOrdered, [Next]_vars PROVE ListingIsOrdered'
    OBVIOUS
  <2>1. CASE FetchEntry \/ FetchFails \/ FetchEnds \/ FilterHidden \/ FilterEnds \/ RollIn
    <3>1. pc' # "done"
      BY <2>1 DEF FetchEntry, FetchFails, FetchEnds, FilterHidden, FilterEnds, RollIn
    <3>2. QED
      BY <3>1 DEF ListingIsOrdered
  <2>2. CASE Emit
    BY <2>2, EmitIsOrdered
  <2>3. CASE MockListing
    BY <2>3, MockIsOrdered
  <2>4. CASE UNCHANGED vars
    BY <2>4 DEF vars, ListingIsOrdered
  <2>5. QED
    BY <2>1, <2>2, <2>3, <2>4 DEF Next
<1>3. QED
  BY <1>1, <1>2, ScanInvariantHolds, PTL DEF Spec

\* What is listed of one BSS alone says what that BSS says.
LEMMA EmitIsAlone == IInv /\ AloneInv /\ Emit => OpenStandsAlone'
<1> SUFFICES ASSUME IInv, AloneInv, Emit PROVE OpenStandsAlone'
  OBVIOUS
<1> DEFINE n == Len(bsses)
<1>1. /\ pc = "loop" /\ bsses \in Seq(RawBsses) /\ n \in Nat /\ next - 1 = n
      /\ report' = report
  BY DEF IInv, TypeOK, Emit
<1>2. \A s \in DOMAIN by_ssid : KeepsIn(bsses, s, by_ssid[s], n)
  BY <1>1 DEF IInv, PassKeepsRanking, KeepsIn, GroupIn, Group, Outranks, OutranksIn, UnionOf
<1>3. \A j \in 1..n : OpenAlone(report.platform, bsses[j].security)
  BY DEF AloneInv, AloneOn
<1>4. ASSUME NEW s \in DOMAIN by_ssid, by_ssid[s].bss_count = 1
      PROVE  OpenAlone(report.platform, by_ssid[s].security_union)
  <2> DEFINE group == GroupIn(bsses, s, n)
  <2>1. Cardinality(group) = 1 /\ by_ssid[s].security_union = UnionOf(bsses, group)
    BY <1>2, <1>4 DEF KeepsIn
  <2>2. IsFiniteSet(group) /\ group \subseteq 1..n
    BY <1>1, GroupIsFinite
  <2> HIDE DEF group
  <2>3. PICK j : group = {j}
    BY <2>1, <2>2, FS_Singleton
  <2>4. UnionOf(bsses, group) = bsses[j].security
    BY <2>3, Zenon DEF UnionOf
  <2>5. QED
    BY <1>3, <2>1, <2>2, <2>3, <2>4
<1>5. ASSUME NEW j \in DOMAIN out', out'[j].bss_count = 1
      PROVE  OpenAlone(report.platform, out'[j].security)
  <2>1. PICK s \in DOMAIN by_ssid : out'[j] = VisibleNetwork(by_ssid[s])
    BY EmitIsOrdered
  <2>2. /\ out'[j].bss_count = by_ssid[s].bss_count
        /\ out'[j].security = by_ssid[s].security_union
    BY <2>1 DEF VisibleNetwork
  <2>3. QED
    BY <1>4, <1>5, <2>2
<1>6. QED
  BY <1>1, <1>5 DEF OpenStandsAlone

\* A network listed of one access point is not said to be open and something
\* else, whatever the four systems report of it and of others: the decoders
\* make no such BSS, the filter and the pass keep what each BSS says apart from
\* what those of other SSIDs say.
THEOREM OpenAloneListed == Spec => []OpenStandsAlone
<1>1. Init => OpenStandsAlone /\ AloneInv
  BY DEF Init, OpenStandsAlone, AloneInv
<1>2. IInv /\ AloneInv /\ OpenStandsAlone /\ [Next]_vars => OpenStandsAlone' /\ AloneInv'
  <2> SUFFICES ASSUME IInv, AloneInv, OpenStandsAlone, [Next]_vars
               PROVE  OpenStandsAlone' /\ AloneInv'
    OBVIOUS
  <2>1. AloneInv'
    BY AloneNext DEF IInv
  <2>2. CASE FetchEntry \/ FetchFails \/ FetchEnds \/ FilterHidden \/ FilterEnds \/ RollIn
    <3>1. pc' # "done"
      BY <2>2 DEF FetchEntry, FetchFails, FetchEnds, FilterHidden, FilterEnds, RollIn
    <3>2. QED
      BY <2>1, <3>1 DEF OpenStandsAlone
  <2>3. CASE Emit
    BY <2>1, <2>3, EmitIsAlone
  <2>4. CASE MockListing
    <3>1. report' = report /\ report.platform = "mock"
      BY <2>4 DEF MockListing
    <3>2. QED
      BY <2>1, <3>1 DEF OpenStandsAlone
  <2>5. CASE UNCHANGED vars
    BY <2>1, <2>5 DEF vars, OpenStandsAlone
  <2>6. QED
    BY <2>2, <2>3, <2>4, <2>5 DEF Next
<1>3. QED
  BY <1>1, <1>2, ScanInvariantHolds, PTL DEF Spec
=============================================================================
