---------------------------- MODULE BssDecoding ------------------------------
(***************************************************************************)
(* What each platform's scan makes of one entry the system reports: the    *)
(* security modes, the signal quality and the frequency of a RawBss.  Each *)
(* function is pure; an entry is a record of what the code reads of it.    *)
(***************************************************************************)
EXTENDS Integers, Sequences

CONSTANT None       \* the Option that holds nothing

ASSUME NoneIsNoNumber == None \notin Int

Flags == {"OPEN", "WEP", "WPA_PSK", "WPA2_PSK", "WPA3_SAE",
          "WPA2_ENTERPRISE", "WPA3_ENTERPRISE", "OWE"}

-----------------------------------------------------------------------------
(* What the systems report of an entry, as far as the code reads it.       *)

Ssids == Seq(0..255)
Optional(S) == S \cup {None}

CWModes == {"None", "WEP", "DynamicWEP", "WPAPersonal", "WPAPersonalMixed",
            "WPA2Personal", "Personal", "WPA3Personal", "WPA3Transition",
            "WPAEnterprise", "WPAEnterpriseMixed", "WPA2Enterprise", "Enterprise",
            "WPA3Enterprise", "OWE", "OWETransition"}

\* The channel numbers there are in a band.
ChannelsOf(band) ==
    CASE band = "Ghz2_4" -> 1..14 [] band = "Ghz5" -> 1..196 [] band = "Ghz6" -> 1..233
      [] OTHER -> Int

\* band is None where CoreWLAN has no channel for a network, or no band for that.
MacEntries ==
    {e \in [ssid : Optional(Ssids), rssi : Int, modes : SUBSET CWModes, channel : Int,
            band : Optional({"Ghz2_4", "Ghz5", "Ghz6"}), bssid : Optional(Nat)] :
        e.channel \in ChannelsOf(e.band)}

KeyManagements == {"PSK", "8021X", "SAE", "OWE", "OWE_TM", "EAP_SUITE_B_192", "EAP_SHA384"}

\* unread: the properties that could not be read, the access point being gone.
LinuxEntries ==
    [ssid : Optional(Ssids), strength : Optional(Nat), privacy : BOOLEAN,
     wpa : SUBSET {"PSK", "8021X"}, rsn : SUBSET KeyManagements,
     unread : SUBSET {"flags", "wpa", "rsn"}, bssid : Optional(Nat), mhz : Optional(Int)]

\* A token of the capabilities string: its family (hint: ESS, WPS and the like;
\* WPA: the first generation) and the key managements it names.
Tokens == [family : {"hint", "WEP", "WPA", "RSN", "other"},
           keys : SUBSET {"PSK", "EAP", "SAE", "OWE"}]
\* tokens is None where the ScanResult's capabilities are null.
AndroidEntries ==
    [ssid : Optional(Ssids), level : Int, tokens : Optional(SUBSET Tokens),
     bssid : Optional(Nat), mhz : Int]

AuthAlgorithms == {"80211_OPEN", "80211_SHARED_KEY", "WPA", "WPA_NONE", "WPA_PSK", "RSNA",
                   "RSNA_PSK", "WPA3", "WPA3_ENT", "WPA3_SAE", "OWE", "unknown"}

\* A network, with the list of its BSSes if there is one.
WindowsEntries ==
    [ssid : Ssids, auth : AuthAlgorithms, cipher : {"NONE", "WEP", "CCMP"}, quality : Nat,
     bsses : Optional(Seq([rssi : Int, bssid : Optional(Nat), mhz : Optional(Int)]))]

-----------------------------------------------------------------------------
(* Security modes.                                                         *)

\* MUTANT: a transition access point is reported as open, too.
OpenBesideOwe(flags) == flags

\* OPEN and OWE exclude each other on one BSS.
OweExcludesOpen(flags) == IF "OWE" \in flags THEN flags \ {"OPEN"} ELSE flags

\* macOS: one supported CWSecurity mode.
FlagsOfMode(mode) ==
    CASE mode = "None" -> {"OPEN"}
      [] mode \in {"WEP", "DynamicWEP"} -> {"WEP"}
      [] mode \in {"WPAPersonal", "WPAPersonalMixed"} -> {"WPA_PSK"}
      [] mode = "WPA2Personal" -> {"WPA2_PSK"}
      [] mode = "Personal" -> {"WPA_PSK", "WPA2_PSK", "WPA3_SAE"}
      [] mode = "WPA3Personal" -> {"WPA3_SAE"}
      [] mode = "WPA3Transition" -> {"WPA2_PSK", "WPA3_SAE"}
      [] mode \in {"WPAEnterprise", "WPAEnterpriseMixed", "WPA2Enterprise",
                   "Enterprise"} -> {"WPA2_ENTERPRISE"}
      [] mode = "WPA3Enterprise" -> {"WPA3_ENTERPRISE"}
      [] mode \in {"OWE", "OWETransition"} -> {"OWE"}

security_from_cw_set(observed) ==
    OweExcludesOpen(UNION {FlagsOfMode(mode) : mode \in observed})

\* Android: one token of the capabilities string.
FlagsOfToken(token) ==
    CASE token.family = "hint" -> {}
      [] token.family = "WEP" -> {"WEP"}
      [] token.family \in {"WPA", "RSN", "other"} ->
             (IF "OWE" \in token.keys THEN {"OWE"} ELSE {})
             \cup (IF "SAE" \in token.keys THEN {"WPA3_SAE"} ELSE {})
             \cup (IF "PSK" \notin token.keys THEN {}
                   ELSE IF token.family = "WPA" THEN {"WPA_PSK"} ELSE {"WPA2_PSK"})
             \cup (IF "EAP" \in token.keys THEN {"WPA2_ENTERPRISE"} ELSE {})

FlagsOfTokens(tokens) == UNION {FlagsOfToken(t) : t \in tokens}

OnlyHints(tokens) == \A t \in tokens : t.family = "hint"

security_from_capabilities(tokens) ==
    OweExcludesOpen(FlagsOfTokens(tokens)
                    \cup IF OnlyHints(tokens) THEN {"OPEN"} ELSE {})

\* Linux: the privacy bit and the key managements of the WPA and RSN elements.
security_from_nm_flags(privacy, wpa, rsn) ==
    LET keyed ==
          (IF rsn \cap {"OWE", "OWE_TM"} # {} THEN {"OWE"} ELSE {})
          \cup (IF "PSK" \in wpa THEN {"WPA_PSK"} ELSE {})
          \cup (IF "8021X" \in wpa \cup rsn THEN {"WPA2_ENTERPRISE"} ELSE {})
          \cup (IF "PSK" \in rsn THEN {"WPA2_PSK"} ELSE {})
          \cup (IF "SAE" \in rsn THEN {"WPA3_SAE"} ELSE {})
          \cup (IF rsn \cap {"EAP_SUITE_B_192", "EAP_SHA384"} # {}
                THEN {"WPA3_ENTERPRISE"} ELSE {})
    IN IF keyed # {} THEN keyed ELSE IF privacy THEN {"WEP"} ELSE {"OPEN"}

\* Windows: the default algorithms of a network.
security_from_auth_cipher(auth, cipher) ==
    CASE auth = "80211_OPEN" /\ cipher = "NONE" -> {"OPEN"}
      [] auth = "80211_OPEN" /\ cipher # "NONE" -> {"WEP"}
      [] auth = "80211_SHARED_KEY" -> {"WEP"}
      [] auth \in {"WPA", "WPA_NONE", "WPA_PSK"} -> {"WPA_PSK"}
      [] auth = "RSNA" -> {"WPA2_ENTERPRISE"}
      [] auth = "RSNA_PSK" -> {"WPA2_PSK"}
      [] auth \in {"WPA3", "WPA3_ENT"} -> {"WPA3_ENTERPRISE"}
      [] auth = "WPA3_SAE" -> {"WPA3_SAE"}
      [] auth = "OWE" -> {"OWE"}
      [] auth = "unknown" -> {}

-----------------------------------------------------------------------------
(* Signal and frequency.                                                   *)

\* -100 dBm is 0, -50 dBm is 100, clamped.
quality_from_dbm(dbm) ==
    LET v == 2 * (dbm + 100) IN IF v < 0 THEN 0 ELSE IF v > 100 THEN 100 ELSE v

\* macOS: the centre of a channel.
channel_to_mhz(channel, band) ==
    CASE channel < 0 -> None
      [] channel >= 0 /\ band = "Ghz2_4" ->
             IF channel = 14 THEN 2484 ELSE 2407 + 5 * channel
      [] channel >= 0 /\ band = "Ghz5" -> 5000 + 5 * channel
      [] channel >= 0 /\ band = "Ghz6" -> 5950 + 5 * channel
      [] OTHER -> None

-----------------------------------------------------------------------------
(* The RawBss each platform pushes for an entry: none, one or, on Windows, *)
(* one per BSS of a network.                                               *)

RawBss(ssid, security, rssi, quality, bssid, mhz) ==
    [ssid |-> ssid, security |-> security, rssi_dbm |-> rssi,
     quality |-> quality, bssid |-> bssid, frequency_mhz |-> mhz]

\* macOS: 0 dBm is what CoreWLAN reports for an entry without a measurement.
MeasuredRssi(e) == IF e.rssi = 0 THEN None ELSE e.rssi

MacBsses(e) ==
    LET rssi == MeasuredRssi(e) IN
    IF e.ssid = None THEN <<>>
    ELSE <<RawBss(e.ssid, security_from_cw_set(e.modes), rssi,
                  IF rssi = None THEN 0 ELSE quality_from_dbm(rssi),
                  e.bssid, channel_to_mhz(e.channel, e.band))>>

\* Linux: an access point that is gone is skipped when its SSID or strength
\* cannot be read; flags that cannot be read count as zero.
LinuxBsses(e) ==
    IF e.ssid = None \/ e.strength = None THEN <<>>
    ELSE <<RawBss(e.ssid,
                  security_from_nm_flags(
                      e.privacy /\ "flags" \notin e.unread,
                      IF "wpa" \in e.unread THEN {} ELSE e.wpa,
                      IF "rsn" \in e.unread THEN {} ELSE e.rsn),
                  None, e.strength, e.bssid, e.mhz)>>

\* Android: null capabilities are read as an empty string.
AndroidBsses(e) ==
    IF e.ssid = None THEN <<>>
    ELSE <<RawBss(e.ssid,
                  security_from_capabilities(IF e.tokens = None THEN {} ELSE e.tokens),
                  e.level,
                  quality_from_dbm(e.level), e.bssid,
                  IF e.mhz < 0 THEN None ELSE e.mhz)>>

\* Windows: the BSSes of one available network, or a stand-in without BSSID
\* when they cannot be listed.
WindowsBsses(e) ==
    LET security == security_from_auth_cipher(e.auth, e.cipher) IN
    IF e.ssid = <<>> THEN <<>>
    ELSE IF e.bsses = None
    THEN <<RawBss(e.ssid, security, None,
                  IF e.quality > 100 THEN 100 ELSE e.quality, None, None)>>
    ELSE [j \in 1..Len(e.bsses) |->
             RawBss(e.ssid, security, e.bsses[j].rssi,
                    quality_from_dbm(e.bsses[j].rssi), e.bsses[j].bssid,
                    e.bsses[j].mhz)]
=============================================================================
