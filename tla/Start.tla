------------------------------- MODULE Start -------------------------------
(***************************************************************************)
(* The start of the program: main of src/src/main.cpp with ReadCfg, Init,  *)
(* Start and the destructor of IMachine, up to the loop it serves in or    *)
(* its end.  What the threads do once they run is in the other modules;    *)
(* here they only use the servers, which may not have been made.           *)
(***************************************************************************)
EXTENDS IniFile, FiniteSets, TLC

CONSTANTS
    Files,        \* what a Config.ini may be
    Numbers,      \* the words that are numbers
    PinNumbers,   \* those that a pin may have: 1 to 11
    Faults        \* what may be wrong with the board: <<>>, or a pin and the
                  \* step of opening it that fails

ASSUME FilesAssumption == Files \subseteq Seq(Seq(STRING)) /\ Files # {}
ASSUME NumbersAssumption == PinNumbers \subseteq Numbers /\ "0" \in Numbers \ PinNumbers
ASSUME FaultsAssumption ==
    Faults \subseteq {<<>>} \cup ({"in", "out"} \X PinNumbers) \X {"export", "direction"}

(* Section, key and default of what is asked for: the numbers that the     *)
(* logger asks for, those that ReadCfg does, and texts.  (A loop detector  *)
(* that Config.ini does not name has a pin all the same, although line 16  *)
(* of that file says that it is then 0.)                                   *)
LogInts == [
    write |-> <<"Log", "write", "1">>, debug |-> <<"Log", "debug", "0">>,
    level |-> <<"Log", "level", "1">>, days |-> <<"Log", "days", "7">> ]

DeviceInts == [
    I1 |-> <<"IOCardIn", "VehicleDevice1", "1">>, I2 |-> <<"IOCardIn", "VehicleDevice2", "2">>,
    I3 |-> <<"IOCardIn", "VehicleDevice3", "3">>, I4 |-> <<"IOCardIn", "ManualSwitch", "4">>,
    TcpPort1 |-> <<"socket", "RobortPort", "5000">>,
    TcpPort2 |-> <<"socket", "ManualPort", "5001">>,
    O1 |-> <<"IOCardOut", "Balustrade_up", "1">>, O2 |-> <<"IOCardOut", "Balustrade_down", "2">>,
    O3 |-> <<"IOCardOut", "TrafficLed", "1">>, O4 |-> <<"IOCardOut", "FlashLight", "2">>,
    port |-> <<"Serial", "baudRate", "9600">>,
    communication |-> <<"Serial", "communication", "0">>,
    LedMode |-> <<"Serial", "LedMode", "0">> ]

LogSettings == DOMAIN LogInts

Ints == [n \in LogSettings \cup DOMAIN DeviceInts |->
           IF n \in LogSettings THEN LogInts[n] ELSE DeviceInts[n]]

Texts == [
    Dev |-> <<"Serial", "Serial", "ttyS0">>, Uart1 |-> <<"Serial", "Led", "ttyS5">>,
    Client1 |-> <<"Clients", "Client1", "192.168.1.2">>,
    Client2 |-> <<"Clients", "Client2", "192.168.1.3">> ]

ASSUME DefaultsAssumption == \A n \in DOMAIN Ints : Ints[n][3] \in Numbers

(* The pointers, in the order in which the destructor deletes them; and    *)
(* the threads of Init.                                                    *)
Deleted == <<"Tcp1", "Tcp2", "Serial1", "Balustrade_up", "Balustrade_down", "Led", "TrafficLed",
             "FlashLight", "VehicleDevice1", "VehicleDevice2", "VehicleDevice3">>

Members == {Deleted[k] : k \in DOMAIN Deleted}

Threads == <<"Tcpserver1", "Tcpserver2", "timerThread", "vehicleThread", "heartThread">>

(* The pins: which are inputs, and the setting that has the number.        *)
Gpios == [
    VehicleDevice1 |-> <<"in", "I1">>, VehicleDevice2 |-> <<"in", "I2">>,
    VehicleDevice3 |-> <<"in", "I3">>, ManualSwitch |-> <<"in", "I4">>,
    Balustrade_up |-> <<"out", "O1">>, Balustrade_down |-> <<"out", "O2">>,
    TrafficLed |-> <<"out", "O3">>, FlashLight |-> <<"out", "O4">> ]

Servers == {"Tcp1", "Tcp2"}
Uses == [Tcpserver1 |-> {"Tcp1"}, Tcpserver2 |-> {"Tcp2"}, timerThread |-> {"Led"},
         vehicleThread |-> Servers, heartThread |-> Servers]

VARIABLES
    files,      \* Config.ini where the program was started, and where it is
    called,     \* by a path, by a mere name, or by one that is too long
    doc,        \* sections_vt
    settings,   \* what was read from it, by name
    made,       \* the members that have been assigned
    fresh,      \* what the others hold: "null", or "wild"
    panel,      \* can the panel be opened?
    fault,      \* what is wrong with the board
    board,      \* the pins that are exported, and those that each Gpio has open
    main,       \* where main is
    threads,    \* how many threads of Init run
    ended       \* how the process has ended

vars == <<files, called, doc, settings, made, fresh, panel, fault, board, main, threads, ended>>

Places == {"load", "log", "settings", "servers", "lamps", "open", "link", "threads", "start",
           "serve", "serial", "delete"}

TypeOK ==
    /\ files["cwd"] \in Files /\ files["home"] \in Files
    /\ called \in {"path", "name", "long"} /\ fault \in Faults
    /\ \A i, j \in DOMAIN doc : doc[i].name = doc[j].name => i = j
    /\ DOMAIN settings \subseteq DOMAIN Ints \cup DOMAIN Texts
    /\ made \subseteq Members /\ fresh \in {"null", "wild"} /\ panel \in BOOLEAN
    /\ main \in Places /\ threads \in 0..Len(Threads)
    /\ ended \in {"no", "exit", "segv", "terminate"}
    /\ threads > 0 => Members \ made \in {{"Serial1"}, Servers}
    /\ DOMAIN board.open \subseteq DOMAIN Gpios
    /\ ended = "no" => board.exported = {board.open[g] : g \in DOMAIN board.open}

Init ==
    /\ files \in [{"cwd", "home"} -> Files] /\ called \in {"path", "name", "long"}
    /\ doc = <<>> /\ settings = <<>>
    /\ made = {} /\ fresh \in {"null", "wild"} /\ panel \in BOOLEAN
    /\ fault \in Faults /\ board = [exported |-> {}, open |-> <<>>]
    /\ main = "load" /\ threads = 0 /\ ended = "no"

(***************************************************************************)
(* main and ReadCfg.                                                       *)
(***************************************************************************)
Go(from, to) == ended = "no" /\ main = from /\ main' = to

Keep == UNCHANGED <<files, called, fresh, panel, fault>>

LoadConfig ==
    /\ Go("load", "log")
    /\ doc' = Load(files["cwd"]).doc
    /\ UNCHANGED <<settings, made, board, threads, ended>> /\ Keep

(* The value of a setting: a number, or a text. *)
Ask(from, n) ==
    IF n \in DOMAIN Ints
    THEN GetIntValue(from, <<Ints[n][1]>>, <<Ints[n][2]>>, Ints[n][3], Numbers)
    ELSE GetStringValue(from, <<Texts[n][1]>>, <<Texts[n][2]>>, <<Texts[n][3]>>)

(* Where the path by which the program was called leads to; a name without *)
(* a "/", and one that is too long, leave Config.ini as it is.             *)
GetModuleFileName == IF called = "path" THEN "home" ELSE "cwd"

(* The first line that is logged makes the logger, which loads the file    *)
(* again, from the directory of the program.                               *)
StartLog ==
    /\ Go("log", "settings")
    /\ doc' = Load(files[GetModuleFileName]).doc
    /\ settings' = [n \in LogSettings |-> Ask(doc', n)]
    /\ UNCHANGED <<made, board, threads, ended>> /\ Keep

(***************************************************************************)
(* The pins.                                                               *)
(***************************************************************************)
NoPin == <<>>

SetPin(mode, number) == IF number \in PinNumbers THEN <<mode, number>> ELSE NoPin

SetClose(b, pin) == [b EXCEPT !.exported = @ \ {pin}]

(* A pin that another Gpio has exported is used as it is; one that cannot  *)
(* be given its direction, or whose value cannot be opened, is closed.     *)
SetOpen(b, gpio) ==
    LET pin == gpio.pin
    IN  CASE \/ pin = NoPin
             \/ fault = <<pin, "export">> /\ pin \notin b.exported -> b
          [] fault = <<pin, "direction">> -> SetClose(b, pin)
          [] OTHER -> [exported |-> b.exported \cup {pin},
                       open |-> [g \in DOMAIN b.open \cup {gpio.name} |->
                                   IF g = gpio.name THEN pin ELSE b.open[g]]]

(* The pin that a Gpio is to have. *)
PinOf(config, g) == SetPin(Gpios[g][1], config[Gpios[g][2]])

(* The constructor of Gpio, whose result nobody looks at; gs in this order. *)
NewGpios(config, gs) ==
    LET after[k \in 0..Len(gs)] ==
          IF k = 0 THEN board
          ELSE Once(SetOpen, after[k - 1], [name |-> gs[k], pin |-> PinOf(config, gs[k])])
    IN  after[Len(gs)]

(* The destructors: what a Gpio was to have is given back, open or not.    *)
ExitGpios(gs) ==
    [exported |-> board.exported \ {PinOf(settings, g) : g \in gs},
     open     |-> [g \in DOMAIN board.open \ gs |-> board.open[g]]]

ReadSettings ==
    /\ Go("settings", "servers")
    /\ \E config \in {[n \in DOMAIN Ints \cup DOMAIN Texts |->
                         IF n \in LogSettings THEN settings[n] ELSE Ask(doc, n)]} :
          /\ settings' = config
          /\ board' = NewGpios(config,
                <<"VehicleDevice1", "VehicleDevice2", "VehicleDevice3", "ManualSwitch",
                  "Balustrade_up", "Balustrade_down", "TrafficLed">>)
    /\ made' = made \cup {"VehicleDevice1", "VehicleDevice2", "VehicleDevice3",
                          "Balustrade_up", "Balustrade_down", "TrafficLed"}
    /\ UNCHANGED <<doc, threads, ended>> /\ Keep

MakeServers ==
    /\ Go("servers", "lamps")
    /\ \/ settings["communication"] = "0" /\ made' = made \cup {"Serial1"}
       \/ settings["communication"] = "2" /\ made' = made \cup Servers
    /\ UNCHANGED <<doc, settings, board, threads, ended>> /\ Keep

NoSuchCommunication ==
    /\ Go("servers", "delete")
    /\ settings["communication"] \notin {"0", "2"}
    /\ UNCHANGED <<doc, settings, made, board, threads, ended>> /\ Keep

(* The light is made a second time, and the first one is never deleted.    *)
MakeLamps ==
    /\ Go("lamps", "open")
    /\ made' = made \cup {"Led", "TrafficLed", "FlashLight"}
    /\ board' = NewGpios(settings, <<"TrafficLed", "FlashLight">>)
    /\ UNCHANGED <<doc, settings, threads, ended>> /\ Keep

(***************************************************************************)
(* Init: FB_Open of the panel, and the threads.                            *)
(***************************************************************************)
LedModes == {"0", "2"}

(* The text of a setting up to its comma, and after it. *)
Device(v) == LET at == Find(v, ",") IN IF at = 0 THEN v ELSE SubSeq(v, 1, at - 1)
Rest(v) == SubSeq(v, Len(Device(v)) + 2, Len(v))

(* A text that names a device and a port. *)
Whole(v) == Find(v, ",") > 0 /\ Device(v) # <<>> /\ Device(Rest(v)) # <<>>

(* Without a comma substr throws, and nobody catches. *)
FB_OpenThrows ==
    /\ Go("open", "open")
    /\ settings["LedMode"] \in LedModes
    /\ Device(settings["Uart1"]) # <<>> /\ Find(settings["Uart1"], ",") = 0
    /\ ended' = "terminate"
    /\ UNCHANGED <<doc, settings, made, board, threads>> /\ Keep

FB_Open ==
    /\ Go("open", IF settings["LedMode"] \in LedModes /\ Whole(settings["Uart1"])
                  THEN "link" ELSE "delete")
    /\ settings["LedMode"] \in LedModes /\ settings["Uart1"] # <<>>
          => Find(settings["Uart1"], ",") > 0
    /\ UNCHANGED <<doc, settings, made, board, threads, ended>> /\ Keep

(* CreatComm opens the panel, or there is none. *)
DisplayInit ==
    /\ Go("link", IF panel THEN "threads" ELSE "delete")
    /\ UNCHANGED <<doc, settings, made, board, threads, ended>> /\ Keep

StartThread ==
    /\ Go("threads", IF threads + 1 = Len(Threads) THEN "start" ELSE "threads")
    /\ threads' = threads + 1
    /\ UNCHANGED <<doc, settings, made, board, ended>> /\ Keep

(***************************************************************************)
(* Start, and the end.                                                     *)
(***************************************************************************)
OpenServers ==
    /\ Go("start", IF settings["communication"] = "2" THEN "serve" ELSE "serial")
    /\ UNCHANGED <<doc, settings, made, board, threads, ended>> /\ Keep

(* What is not assigned is 0, or points anywhere: then nothing need happen. *)
Hits == IF fresh = "null" THEN {"segv"} ELSE {"no", "segv"}

(* A thread of Init uses its servers; so does ReceiveCmd1 in main. *)
UseServer ==
    /\ ended = "no"
    /\ \/ \E t \in 1..threads : ~ Uses[Threads[t]] \subseteq made
       \/ main = "serial"
    /\ ended' \in Hits
    /\ UNCHANGED <<doc, settings, made, board, main, threads>> /\ Keep

(* ~IMachine deletes everything but the mode switch, made or not; a null   *)
(* pointer does no harm.                                                   *)
DeleteMachine ==
    /\ ended = "no" /\ main = "delete"
    /\ board' = ExitGpios(DOMAIN Gpios \cap made)
    /\ ended' = "exit"
    /\ UNCHANGED <<doc, settings, made, main, threads>> /\ Keep

(* It may not get to its end: a pointer that was never assigned points     *)
(* anywhere, and a server that was never opened cancels and closes what    *)
(* its sockID, newfd and sockfd happen to hold.                            *)
MayCrash(m) == IF m \in made THEN m \in Servers ELSE fresh = "wild"

DeleteCrashes ==
    /\ ended = "no" /\ main = "delete"
    /\ \E k \in DOMAIN Deleted :
          /\ MayCrash(Deleted[k])
          /\ board' = ExitGpios({Deleted[i] : i \in 1..(k - 1)} \cap DOMAIN Gpios \cap made)
    /\ ended' = "segv"
    /\ UNCHANGED <<doc, settings, made, main, threads>> /\ Keep

Main ==
    \/ LoadConfig \/ StartLog \/ ReadSettings \/ MakeServers \/ NoSuchCommunication \/ MakeLamps
    \/ FB_OpenThrows \/ FB_Open \/ DisplayInit \/ StartThread \/ OpenServers
    \/ DeleteMachine \/ DeleteCrashes

Settled == main \in {"serve", "serial"} \/ ended # "no"

(* The loop of Start, or nothing at all. *)
Serve == Settled /\ UNCHANGED vars

Next == Main \/ UseServer \/ Serve

Spec == Init /\ [][Next]_vars

(***************************************************************************)
(* Properties.                                                             *)
(***************************************************************************)

(* What a file says of a key, without a parser: the first line with it     *)
(* under the section, before the first line that cannot be taken.  What    *)
(* counts of a line is what comes before a "#", from the first of its      *)
(* tokens that is no blank to the last.                                    *)
Solid(line) == {i \in DOMAIN line : line[i] # " " /\ \A j \in 1..i : line[j] # "#"}

Has(line, token) == \E i \in Solid(line) : line[i] = token

(* Its first place in what counts, or the place after the line. *)
First(line, token) == Min({i \in Solid(line) : line[i] = token} \cup {Len(line) + 1})

Words(line, at) == IF at = {} THEN <<>> ELSE SubSeq(line, Min(at), Max(at))

IsHeader(line) == Solid(line) # {} /\ line[Min(Solid(line))] = "["

Name(line) ==
    Words(line, {i \in Solid(line) : Min(Solid(line)) < i /\ i < First(line, "]")})

Key(line) == Words(line, {i \in Solid(line) : i < First(line, "=")})

Value(line) == Words(line, {i \in Solid(line) : First(line, "=") < i})

Spoilt(f, i) ==
    IF IsHeader(f[i])
    THEN \/ ~ Has(f[i], "]") \/ Name(f[i]) = <<>>
         \/ \E j \in 1..(i - 1) : IsHeader(f[j]) /\ Name(f[j]) = Name(f[i])
    ELSE Solid(f[i]) # {} /\ ~ Has(f[i], "=")

Under(f, i) ==
    LET headers == {j \in 1..i : IsHeader(f[j])}
    IN  IF headers = {} THEN <<>> ELSE Name(f[Max(headers)])

Says(f, s, k) ==
    {i \in DOMAIN f : /\ ~ IsHeader(f[i]) /\ Has(f[i], "=") /\ Key(f[i]) = k
                      /\ Under(f, i) = s /\ \A j \in 1..i : ~ Spoilt(f, j)}

(* The words that it gives for a setting, or the one that is the default.  *)
Setting(f, asked) ==
    LET says == Says(f, <<asked[1]>>, <<asked[2]>>)
    IN  IF f = NoFile \/ says = {} THEN <<asked[3]>> ELSE Value(f[Min(says)])

Number(f, n) == Atoi(Setting(f, Ints[n]), Numbers)

(* A file of a machine that can serve: two servers, and a panel. *)
Configured(f) ==
    /\ Number(f, "communication") = "2" /\ Number(f, "LedMode") \in LedModes
    /\ LET v == Setting(f, Texts["Uart1"])
       IN  \E c \in 2..(Len(v) - 1) :
              v[c] = "," /\ v[c + 1] # "," /\ \A i \in 1..(c - 1) : v[i] # ","

(* The pin that it gives a Gpio, if there is one that can be opened. *)
PinsOf(f, g) ==
    LET pin == <<Gpios[g][1], Number(f, Gpios[g][2])>>
    IN  IF pin[2] \in PinNumbers /\ fault \notin {<<pin, "export">>, <<pin, "direction">>}
        THEN {pin} ELSE {}

(* The program ends up serving exactly if the file beside it says all that *)
(* is needed before its first bad line and the panel can be opened: the    *)
(* defaults do not do, and the file in the working directory does not      *)
(* matter, unless the program was called by a mere name.  It then has the  *)
(* numbers and the pins the file gives, and the code's defaults for what   *)
(* it does not name, as far as the board has the pins; and when it leaves  *)
(* again without a crash, no pin stays behind but the mode switch's.       *)
StartsAsConfigured ==
    LET f == files[IF called = "path" THEN "home" ELSE "cwd"]
    IN  Settled =>
            IF Configured(f) /\ panel
            THEN /\ main = "serve" /\ ended = "no"
                 /\ \A n \in DOMAIN Ints : settings[n] = Number(f, n)
                 /\ \A g \in DOMAIN Gpios :
                       PinsOf(f, g) = {board.open[h] : h \in {g} \cap DOMAIN board.open}
            ELSE /\ main # "serve"
                 /\ ended = "exit" => board.exported \subseteq PinsOf(f, "ManualSwitch")
=============================================================================
