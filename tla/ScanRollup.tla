----------------------------- MODULE ScanRollup ------------------------------
(***************************************************************************)
(* scan_rollup.rs: list_visible_networks on every platform that can scan.  *)
(* The platform turns the entries the system reports into RawBsses; rollup *)
(* drops those without an SSID, collects the others per SSID in one pass,  *)
(* and lists the result.  The mock lists what it was told, in the same     *)
(* order.  SSIDs are sequences of bytes.                                   *)
(***************************************************************************)
EXTENDS BssDecoding, FiniteSets

CONSTANTS
    Reports,    \* what the system, or the mock's script, may report:
                \* [platform, entries]
    Saved       \* sets of SSIDs that may have a saved profile

\* What the mock was told of a network; nobody looks at it.
MockEntries ==
    [ssid : Ssids,
     props : [quality : Nat, security : SUBSET Flags, bss_count : Nat,
              rssi_dbm : Optional(Int), bssid : Optional(Nat),
              frequency_mhz : Optional(Nat)]]

EntriesOf(platform) ==
    CASE platform = "macos" -> MacEntries [] platform = "linux" -> LinuxEntries
      [] platform = "android" -> AndroidEntries [] platform = "windows" -> WindowsEntries
      [] platform = "mock" -> MockEntries

\* The mock keeps its networks in a map, by SSID.
ASSUME ReportsAssumption ==
    \A r \in Reports :
        /\ r.platform \in {"macos", "linux", "android", "windows", "mock"}
        /\ r.entries \in Seq(EntriesOf(r.platform))
        /\ r.platform = "mock" =>
              \A j, k \in DOMAIN r.entries :
                  r.entries[j].ssid = r.entries[k].ssid => j = k

VARIABLES
    pc,         \* fetch, filter, loop, done
    report,     \* the platform and the entries it gets from the system
    ctx,        \* the ScanContext: connected_ssid, saved_ssids
    next,       \* the entry, then the BSS, that comes next
    bsses,      \* RawBsses
    by_ssid,    \* the accumulator per SSID
    out         \* the listing

vars == <<pc, report, ctx, next, bsses, by_ssid, out>>

SsidsOf(entries) == {entries[j].ssid : j \in DOMAIN entries} \ {None, <<>>}

Init ==
    /\ pc = "fetch"
    /\ report \in Reports
    /\ ctx \in [connected_ssid : SsidsOf(report.entries) \cup {None},
                saved_ssids : Saved]
    /\ next = 1
    /\ bsses = <<>>
    /\ by_ssid = [s \in {} |-> None]
    /\ out = <<>>

-----------------------------------------------------------------------------
(* The platform's fetch_bsses.                                             *)

BssesOf(e) ==
    CASE report.platform = "macos" -> MacBsses(e)
      [] report.platform = "linux" -> LinuxBsses(e)
      [] report.platform = "android" -> AndroidBsses(e)
      [] report.platform = "windows" -> WindowsBsses(e)

FetchEntry ==
    /\ pc = "fetch" /\ report.platform # "mock"
    /\ next <= Len(report.entries)
    /\ bsses' = bsses \o BssesOf(report.entries[next])
    /\ next' = next + 1
    /\ UNCHANGED <<pc, report, ctx, by_ssid, out>>

\* MUTANT: a failing JNI call, and what was read so far is listed.
FetchStops ==
    /\ pc = "fetch" /\ report.platform = "android"
    /\ next <= Len(report.entries)
    /\ next' = 1
    /\ pc' = "filter"
    /\ UNCHANGED <<report, ctx, bsses, by_ssid, out>>

\* Android: a failing JNI call, and the whole scan counts as empty.
FetchFails ==
    /\ pc = "fetch" /\ report.platform = "android"
    /\ next <= Len(report.entries)
    /\ bsses' = <<>>
    /\ next' = 1
    /\ pc' = "filter"
    /\ UNCHANGED <<report, ctx, by_ssid, out>>

FetchEnds ==
    /\ pc = "fetch" /\ report.platform # "mock"
    /\ next > Len(report.entries)
    /\ next' = 1
    /\ pc' = "filter"
    /\ UNCHANGED <<report, ctx, bsses, by_ssid, out>>

-----------------------------------------------------------------------------
(* rollup.                                                                 *)

\* MUTANT: hidden networks are kept.
AnyBss(b) == TRUE

HasSsid(b) == b.ssid # <<>>

\* One BSS is kept, or taken out.
FilterHidden ==
    /\ pc = "filter" /\ next <= Len(bsses)
    /\ IF HasSsid(bsses[next])
       THEN next' = next + 1 /\ UNCHANGED bsses
       ELSE /\ bsses' = SubSeq(bsses, 1, next - 1) \o SubSeq(bsses, next + 1, Len(bsses))
            /\ UNCHANGED next
    /\ UNCHANGED <<pc, report, ctx, by_ssid, out>>

FilterEnds ==
    /\ pc = "filter" /\ next > Len(bsses)
    /\ next' = 1
    /\ pc' = "loop"
    /\ UNCHANGED <<report, ctx, bsses, by_ssid, out>>

\* MUTANT: at equal quality a later BSS without a reading wins.
LaterWins(new, old) == old = None \/ (new # None /\ new > old)

\* At equal quality a known rssi_dbm beats None, and the greater one wins.
rssi_tiebreak(new, old) ==
    /\ new # None
    /\ old = None \/ new > old

\* The accumulator of the BSS's SSID; or_insert makes one.
EntryFor(b) ==
    IF b.ssid \in DOMAIN by_ssid THEN by_ssid[b.ssid]
    ELSE [best_index |-> next, best_quality |-> 0, best_rssi |-> None,
          security_union |-> {}, bss_count |-> 0]

\* One BSS is rolled in.
RollIn ==
    /\ pc = "loop" /\ next <= Len(bsses)
    /\ LET bss == bsses[next]
           entry == EntryFor(bss)
           is_better == \/ bss.quality > entry.best_quality
                        \/ /\ bss.quality = entry.best_quality
                           /\ rssi_tiebreak(bss.rssi_dbm, entry.best_rssi)
           best == IF entry.bss_count + 1 = 1 \/ is_better
                   THEN [index |-> next, quality |-> bss.quality, rssi |-> bss.rssi_dbm]
                   ELSE [index |-> entry.best_index, quality |-> entry.best_quality,
                         rssi |-> entry.best_rssi]
           acc == [best_index |-> best.index, best_quality |-> best.quality,
                   best_rssi |-> best.rssi,
                   security_union |-> entry.security_union \cup bss.security,
                   bss_count |-> entry.bss_count + 1]
       IN by_ssid' = [s \in DOMAIN by_ssid \cup {bss.ssid} |->
                          IF s = bss.ssid THEN acc ELSE by_ssid[s]]
    /\ next' = next + 1
    /\ UNCHANGED <<pc, report, ctx, bsses, out>>

\* MUTANT: the weakest first.
WeakestFirst(a, b) == a.signal_quality < b.signal_quality

\* SSIDs in the order of their bytes, a prefix first.
BytesBefore(a, b) ==
    \E n \in 0..Len(a) :
        /\ n < Len(b)
        /\ \A j \in 1..n : a[j] = b[j]
        /\ n = Len(a) \/ a[n + 1] < b[n + 1]

\* signal_quality descending, ties by SSID.
Before(a, b) ==
    \/ a.signal_quality > b.signal_quality
    \/ a.signal_quality = b.signal_quality /\ BytesBefore(a.ssid, b.ssid)

\* sort_by of a set of networks.
Sorted(networks) ==
    CHOOSE seq \in [1..Cardinality(networks) -> networks] :
        /\ \A n \in networks : \E j \in DOMAIN seq : seq[j] = n
        /\ \A j, k \in DOMAIN seq : j < k => ~Before(seq[k], seq[j])

\* What an accumulator becomes: everything but the union and the count comes
\* from the best BSS.
VisibleNetwork(acc) ==
    LET bss == bsses[acc.best_index] IN
    [ssid |-> bss.ssid, signal_quality |-> acc.best_quality,
     security |-> acc.security_union, bss_count |-> acc.bss_count,
     is_connected |-> ctx.connected_ssid = bss.ssid,
     has_saved_profile |-> bss.ssid \in ctx.saved_ssids,
     rssi_dbm |-> bss.rssi_dbm, bssid |-> bss.bssid,
     frequency_mhz |-> bss.frequency_mhz]

Emit ==
    /\ pc = "loop" /\ next > Len(bsses)
    /\ out' = Sorted({VisibleNetwork(by_ssid[s]) : s \in DOMAIN by_ssid})
    /\ pc' = "done"
    /\ UNCHANGED <<report, ctx, next, bsses, by_ssid>>

-----------------------------------------------------------------------------
\* The mock's own sort_by, of its own comparison.
MockBefore(a, b) ==
    \/ b.signal_quality < a.signal_quality
    \/ b.signal_quality = a.signal_quality /\ BytesBefore(a.ssid, b.ssid)

MockSorted(networks) ==
    CHOOSE seq \in [1..Cardinality(networks) -> networks] :
        /\ \A n \in networks : \E j \in DOMAIN seq : seq[j] = n
        /\ \A j, k \in DOMAIN seq : j < k => ~MockBefore(seq[k], seq[j])

\* The mock lists its visible map, which nobody filtered.
MockListing ==
    /\ pc = "fetch" /\ report.platform = "mock"
    /\ LET Listed(e) ==
             [ssid |-> e.ssid, signal_quality |-> e.props.quality,
              security |-> e.props.security, bss_count |-> e.props.bss_count,
              is_connected |-> ctx.connected_ssid = e.ssid,
              has_saved_profile |-> e.ssid \in ctx.saved_ssids,
              rssi_dbm |-> e.props.rssi_dbm, bssid |-> e.props.bssid,
              frequency_mhz |-> e.props.frequency_mhz]
       IN out' = MockSorted({Listed(report.entries[j]) : j \in DOMAIN report.entries})
    /\ pc' = "done"
    /\ UNCHANGED <<report, ctx, next, bsses, by_ssid>>

Next ==
    \/ FetchEntry \/ FetchFails \/ FetchEnds \/ FilterHidden \/ FilterEnds
    \/ RollIn \/ Emit \/ MockListing

Spec == Init /\ [][Next]_vars

-----------------------------------------------------------------------------
(* Correctness.                                                            *)

\* The BSSes of an SSID among the first n.
Group(s, n) == {j \in 1..n : bsses[j].ssid = s}

\* BSS j outranks BSS k (scan_rollup.rs, "Ranking: max quality, then known
\* rssi_dbm beats None, then greater rssi_dbm, then observation order").
Outranks(j, k) ==
    LET a == bsses[j] b == bsses[k] IN
    \/ a.quality > b.quality
    \/ /\ a.quality = b.quality
       /\ \/ a.rssi_dbm # None /\ (b.rssi_dbm = None \/ a.rssi_dbm > b.rssi_dbm)
          \/ a.rssi_dbm = b.rssi_dbm /\ j < k

\* The one pass keeps, at each of its steps, the BSS the documented ranking
\* puts first among those seen, their number and the union of their security.
PassKeepsRanking ==
    pc = "loop" =>
        /\ DOMAIN by_ssid = {bsses[j].ssid : j \in 1..(next - 1)}
        /\ \A s \in DOMAIN by_ssid :
              LET acc == by_ssid[s]
                  group == Group(s, next - 1)
              IN /\ acc.best_index \in group
                 /\ \A k \in group \ {acc.best_index} : Outranks(acc.best_index, k)
                 /\ acc.best_quality = bsses[acc.best_index].quality
                 /\ acc.best_rssi = bsses[acc.best_index].rssi_dbm
                 /\ acc.bss_count = Cardinality(group)
                 /\ acc.security_union = UNION {bsses[j].security : j \in group}

\* A listing has each SSID once, strongest first and then by its bytes, at most
\* one of them connected (api.rs, list_visible_networks), whichever platform, the
\* mock included, made it; rolled up, each is named and has a BSS.
ListingIsOrdered ==
    pc = "done" =>
        /\ \A j, k \in DOMAIN out : j < k =>
              /\ out[j].signal_quality >= out[k].signal_quality
              /\ out[j].signal_quality = out[k].signal_quality =>
                    BytesBefore(out[j].ssid, out[k].ssid)
              /\ out[j].ssid # out[k].ssid
              /\ ~(out[j].is_connected /\ out[k].is_connected)
        /\ report.platform # "mock" =>
              \A j \in DOMAIN out : out[j].ssid # <<>> /\ out[j].bss_count > 0

\* What a BSS says of itself: OPEN and OWE exclude each other on one BSS
\* (platform/macos/scan.rs, platform/linux/scan.rs), and only CoreWLAN has an
\* access point support OPEN beside another mode.
OpenAlone(platform, security) ==
    "OPEN" \in security =>
        /\ "OWE" \notin security
        /\ platform # "macos" => security = {"OPEN"}

\* A listed network of a single access point is not said to be both open and
\* something else: what two BSSes advertise may meet only in a network of
\* several (rollup unites the security of a group, the decoders decide that of
\* a BSS).
OpenStandsAlone ==
    pc = "done" /\ report.platform # "mock" =>
        \A j \in DOMAIN out :
            out[j].bss_count = 1 => OpenAlone(report.platform, out[j].security)

\* A listing is of the whole report: the named SSIDs of all its entries, each
\* with the number of its BSSes, the union of their security, and the readings
\* of one that none of them outdoes.  Or, on Android, it is of nothing: a scan
\* whose reading failed half-way lists no part of it.
ListingIsFaithful ==
    pc = "done" /\ report.platform # "mock" =>
        \/ report.platform = "android" /\ out = <<>>
        \/ LET Made(j) == BssesOf(report.entries[j])
               reported == UNION {{j} \X DOMAIN Made(j) : j \in DOMAIN report.entries}
               Bss(p) == Made(p[1])[p[2]]
           IN /\ {out[j].ssid : j \in DOMAIN out} = {Bss(p).ssid : p \in reported} \ {<<>>}
              /\ \A j \in DOMAIN out :
                    LET group == {p \in reported : Bss(p).ssid = out[j].ssid} IN
                    /\ out[j].bss_count = Cardinality(group)
                    /\ out[j].security = UNION {Bss(p).security : p \in group}
                    /\ \E p \in group :
                          /\ out[j].signal_quality = Bss(p).quality
                          /\ out[j].rssi_dbm = Bss(p).rssi_dbm
                          /\ out[j].bssid = Bss(p).bssid
                          /\ out[j].frequency_mhz = Bss(p).frequency_mhz
                          /\ \A q \in group :
                                /\ Bss(q).quality <= Bss(p).quality
                                /\ Bss(q).quality = Bss(p).quality =>
                                      ~rssi_tiebreak(Bss(q).rssi_dbm, Bss(p).rssi_dbm)
=============================================================================
