--------------------------- MODULE MCRuleManager ---------------------------
(***************************************************************************)
(* Finite instances of RuleManager for TLC.  web may talk to whoever is    *)
(* called "app"; app and app2 are two containers of that name, one created *)
(* after the other is removed; api is an unrelated opted-in container; off *)
(* opted out; odd has an invalid opt-in label.                             *)
(***************************************************************************)
EXTENDS RuleManager

CONSTANTS web, app, app2, api, off, odd, x, y, z

MCNames == {"web", "app", "api", "off", "odd"}

MCNameOf == [c \in Containers |->
    CASE c = web -> "web" [] c \in {app, app2} -> "app" [] c = api -> "api"
      [] c = off -> "off" [] c = odd -> "odd"]

MCLabel == [c \in Containers |->
    CASE c = off -> "false" [] c = odd -> "invalid" [] OTHER -> "true"]

MCRulesTo == [c \in Containers |-> IF c = web THEN {"app"} ELSE {}]

\* Every container has its own address, app and app2 one each.
PoolApart == [c \in Containers |->
    CASE c = web -> {x} [] c = app -> {y} [] OTHER -> {z}]

\* web keeps x; the others reuse y.
PoolReuse == [c \in Containers |-> IF c = web THEN {x} ELSE {y}]

\* web keeps x; the others move between y and z.
PoolMove == [c \in Containers |-> IF c = web THEN {x} ELSE {y, z}]

\* web keeps x; app moves from y to z and back; api wants z.
PoolShift == [c \in Containers |->
    CASE c = web -> {x} [] c = app -> {y, z} [] OTHER -> {z}]

\* Any state at first; or web and app run and the others do not exist; or all but
\* api run.
FirstAny == [c \in Containers |-> DockerStates]
FirstReuse == [c \in Containers |-> IF c \in {web, app} THEN {"running"} ELSE {"absent"}]
FirstAllButApi == [c \in Containers |-> IF c = api THEN {"absent"} ELSE {"running"}]
=============================================================================
