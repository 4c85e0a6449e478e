---------------------------- MODULE MCScanRollup -----------------------------
(***************************************************************************)
(* Reports of up to three entries that meet in SSID, quality and reading,  *)
(* and reports of one entry with every combination of security modes that  *)
(* the decoders tell apart.                                                *)
(***************************************************************************)
EXTENDS ScanRollup

a == <<1>>
ab == <<1, 2>>

UpToThree(entries) == UNION {[1..n -> entries] : n \in 0..3}
Of(platform, lists) == {[platform |-> platform, entries |-> l] : l \in lists}
UpToTwo(S) == {{}} \cup {{x, y} : x \in S, y \in S}

Channels == {<<1, "Ghz2_4">>, <<14, "Ghz2_4">>, <<36, "Ghz5">>, <<165, "Ghz5">>,
             <<177, "Ghz5">>, <<1, "Ghz6">>, <<233, "Ghz6">>, <<36, None>>, <<-1, None>>}

MacEntry(ssid, rssi, modes, ch, bssid) ==
    [ssid |-> ssid, rssi |-> rssi, modes |-> modes, channel |-> ch[1],
     band |-> ch[2], bssid |-> bssid]
MacReports ==
    {<<MacEntry(a, -60, modes, ch, 1)>> : modes \in UpToTwo(CWModes), ch \in Channels}
    \cup UpToThree(
      {MacEntry(ssid, rssi, {"OWE", "None"}, <<1, "Ghz2_4">>, 1) :
          ssid \in {a, ab}, rssi \in {0, -100, -40, -30}}
      \cup {MacEntry(s, -50, {"None"}, <<36, "Ghz5">>, None) : s \in {<<>>, None}})

LinuxEntry(ssid, strength, privacy, wpa, rsn, unread) ==
    [ssid |-> ssid, strength |-> strength, privacy |-> privacy, wpa |-> wpa,
     rsn |-> rsn, unread |-> unread, bssid |-> 1, mhz |-> 2412]
LinuxReports ==
    {<<LinuxEntry(a, 50, privacy, wpa, rsn, unread)>> :
        privacy \in BOOLEAN, wpa \in SUBSET {"PSK", "8021X"},
        rsn \in UpToTwo(KeyManagements),
        unread \in SUBSET {"flags", "wpa", "rsn"}}
    \cup UpToThree(
      {LinuxEntry(ssid, strength, TRUE, {}, {"PSK"}, {}) :
          ssid \in {a, ab, <<>>, None}, strength \in {50, 60, None}})

Token(family, keys) == [family |-> family, keys |-> keys]
MCTokens == {Token("hint", {}), Token("WEP", {})}
            \cup {Token(f, keys) : f \in {"WPA", "RSN", "other"},
                     keys \in UpToTwo({"PSK", "EAP", "SAE", "OWE"})}
AndroidEntry(ssid, level, tokens, mhz) ==
    [ssid |-> ssid, level |-> level, tokens |-> tokens, bssid |-> 1, mhz |-> mhz]
AndroidReports ==
    {<<AndroidEntry(a, -70, tokens, -1)>> : tokens \in UpToTwo(MCTokens) \cup {None}}
    \cup UpToThree(
      {AndroidEntry(ssid, level, {Token("RSN", {"PSK", "SAE"})}, 5180) :
          ssid \in {a, ab, <<>>, None}, level \in {-110, -100, -70}}
      \cup {AndroidEntry(ab, -70, None, 5180)})

WindowsEntry(ssid, auth, cipher, list) ==
    [ssid |-> ssid, auth |-> auth, cipher |-> cipher, quality |-> 60, bsses |-> list]
BssEntry(rssi) == [rssi |-> rssi, bssid |-> 1, mhz |-> 2412]
WindowsReports ==
    {<<WindowsEntry(a, auth, cipher, None)>> :
        auth \in AuthAlgorithms,
        cipher \in {"NONE", "WEP", "CCMP"}}
    \cup UNION {[1..n -> {WindowsEntry(ssid, auth, "CCMP", list) :
                   ssid \in {a, ab, <<>>}, auth \in {"RSNA_PSK", "WPA3_SAE"},
                   list \in {None, <<>>, <<BssEntry(-70)>>,
                              <<BssEntry(-60), BssEntry(-70)>>}}] : n \in 0..2}

Props(quality) ==
    [quality |-> quality, security |-> {"WPA2_PSK"}, bss_count |-> 1,
     rssi_dbm |-> None, bssid |-> None, frequency_mhz |-> None]
MockReports ==
    {[j \in 1..Len(names) |-> [ssid |-> names[j], props |-> Props(q[j])]] :
        names \in {<<>>, <<a>>, <<<<>>, a>>, <<ab, a>>, <<<<2>>, ab, a>>},
        q \in [1..3 -> {10, 75}]}

MCReports ==
    Of("macos", MacReports) \cup Of("linux", LinuxReports)
    \cup Of("android", AndroidReports) \cup Of("windows", WindowsReports)
    \cup Of("mock", MockReports)
MCSaved == {{}, {a}}
=============================================================================
