------------------------------- MODULE MCRequests -------------------------------
(* A small instance of Requests for TLC. *)
EXTENDS Requests

CONSTANTS storage, telemetry, vin, renesas,
    left, right, speed, turns, stop, number, east,      \* paths
    rpm, kmh, wheel, other,             \* leaves of the emulator
    lon, long, extra, version,          \* leaves of the simulator
    cabin, car,                         \* branches
    everything, settable, oneDoor, attributes, motion, nowhere,    \* masks
    full, doorman, visitor,             \* clients
    v1, v2

Served == left :> storage @@ right :> storage @@ speed :> telemetry
          @@ turns :> telemetry @@ stop :> telemetry @@ number :> vin
          @@ east :> renesas

Branches == left :> cabin @@ right :> cabin @@ speed :> car @@ turns :> car
            @@ stop :> car @@ number :> car @@ east :> car

Start == left :> v1 @@ right :> v1 @@ speed :> v1 @@ turns :> v1 @@ stop :> Null
         @@ number :> v1 @@ east :> Null

Matched == everything :> Paths @@ settable :> {left, stop}
           @@ oneDoor :> {left} @@ attributes :> {stop}
           @@ motion :> {left, speed, turns, east} @@ nowhere :> {}

Exact == [m \in Masks |-> IF m = oneDoor THEN {left} ELSE {}]

CanRead == full :> Paths @@ doorman :> {left} @@ visitor :> {}

CanWrite == full :> Paths @@ doorman :> {left} @@ visitor :> {}

\* "Left" ends one path, "t" three of them.
Ends == "Left" :> {left} @@ "t" :> {left, right, number} @@ "Stop" :> {stop}

\* wheel is converted to rpm, which is itself converted, and rpm comes from two
\* leaves then.
Depths == kmh :> 1 @@ rpm :> 2 @@ wheel :> 2 @@ other :> 1
          @@ lon :> 3 @@ long :> 1 @@ extra :> 1 @@ version :> 1
Converter == kmh :> speed @@ rpm :> turns @@ wheel :> rpm
Signals == lon :> east @@ long :> east @@ version :> NoSignal
Negative == v1 :> v2 @@ v2 :> v1 @@ Null :> Null

\* Two leaves of one name and a null, and another leaf than at the start.
Trees == {kmh :> Null @@ rpm :> v1 @@ wheel :> v2, rpm :> v2 @@ other :> v1}
Sent  == {lon :> v1 @@ version :> v1 @@ extra :> Null, lon :> v1 @@ long :> v2}

Plain(v) == [items |-> <<>>, whole |-> v]
Map(f)   == [items |-> <<f>>, whole |-> v1]
Requested == {Plain(v1), Plain(Null), Map("Left" :> v2 @@ "t" :> v1),
              Map("Left" :> Null @@ "Stop" :> v2),
              [items |-> <<"Left" :> v1 @@ "Stop" :> v1, "Left" :> v2>>, whole |-> v1]}
=============================================================================
