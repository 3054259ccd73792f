---------------------------- MODULE MCProcessing ----------------------------
(* Processing on frames and fixes around the boundaries of the code.       *)
EXTENDS Processing

MCZones == {"north", "south"}

(* 1 and 2 lie in north, 3 in south, 4 on their common border, 5 outside.  *)
MCCovers == <<{"north"}, {"north"}, {"south"}, {"north", "south"}, {}>>

(* A1 is a1 in other letters: the same network. *)
MCNetworkOf == [a1 |-> "net_a", A1 |-> "net_a", b1 |-> "net_b"]

Security(words) ==
    [stats |-> TRUE, crypto |-> words, privacy |-> TRUE, rsn |-> FALSE, wpa |-> FALSE]

WPA2Frame ==
    [kind |-> "BEACON", bssid |-> "a1", ssid |-> TRUE, frequency |-> 2437, element |-> 6,
     signal |-> -70, security |-> Security({"WPA2", "WPA"})]

GoodFix == [place |-> 1, mode |-> 3, accuracy |-> MaxAccuracy]

Plain == [frame |-> WPA2Frame, fix |-> GoodFix, time |-> 2, times |-> 1]

(* Frequency and channel element, around the limits of every band. *)
Radios ==
    {[Plain EXCEPT !.frame.frequency = c[1], !.frame.element = c[2]] :
        c \in {<<None, 6>>, <<None, 36>>, <<None, 20>>, <<None, None>>, <<2399, 6>>, <<2484, 6>>,
               <<2499, 6>>, <<2500, 6>>, <<5000, 36>>, <<5004, 36>>, <<5005, 36>>, <<5180, 36>>,
               <<5899, 36>>, <<5900, 36>>, <<5955, 1>>, <<7150, 6>>, <<7150, None>>}}

Signals ==
    {[Plain EXCEPT !.frame.signal = s] : s \in {None, -121, -120, -81, -80, -67, -66, 0, 1}}

Securities ==
    {[Plain EXCEPT !.frame.security = s] :
        s \in {Security(w) : w \in {{"OPEN"}, {"WEP"}, {"WPA"}, {"WPA3", "WPA"}, {"WPA2", "WPA3", "WPA"},
                                    {"WPA2", "WPA", "802.1X"}, {"RSN"}, {"other"}}}
             \cup {[Security({}) EXCEPT !.stats = FALSE], [Security({}) EXCEPT !.privacy = FALSE],
                   [Security({}) EXCEPT !.rsn = TRUE], [Security({}) EXCEPT !.wpa = TRUE],
                   Security({})}}

Fixes ==
    {[Plain EXCEPT !.fix = f] :
        f \in {None, [GoodFix EXCEPT !.accuracy = None], [GoodFix EXCEPT !.accuracy = MaxAccuracy + 1]}
             \cup {[GoodFix EXCEPT !.place = p] : p \in {2, 3, 4, 5}}}

Others ==
    {[Plain EXCEPT !.frame.kind = "DATA"], [Plain EXCEPT !.frame.bssid = None],
     [Plain EXCEPT !.frame.bssid = "A1"], [Plain EXCEPT !.frame.bssid = "b1"],
     [Plain EXCEPT !.frame.ssid = FALSE], [Plain EXCEPT !.frame.kind = "PROBE_RESPONSE"],
     [Plain EXCEPT !.time = 1], [Plain EXCEPT !.times = 9]}

MCReceptions == Radios \cup Signals \cup Securities \cup Fixes \cup Others
=============================================================================
