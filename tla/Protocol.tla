------------------------------ MODULE Protocol ------------------------------
(***************************************************************************)
(* The messages of a client, as JSON, and what validateClientEnvelope says *)
(* of them (src/battle_protocol/Protocol.cpp).  The server's handlers use  *)
(* it on what they read and the desktop client on what it is about to send.*)
(*                                                                         *)
(* A JSON object is a function from its fields to values.  Of a string     *)
(* that is only measured its length in bytes is kept.                      *)
(***************************************************************************)
EXTENDS Integers

Phases == {"Connected", "Authenticated", "InMatch"}
ServerTypes == {"AuthResult", "MatchJoined", "InputAck", "Snapshot", "EventBatch", "Error"}
ClientTypes == {"AuthRequest", "CreateMatch", "JoinMatch", "StartNextMatch", "InputCommand",
                "Handshake", "Ping", "Pong"}

NoFields == [field \in {} |-> 0]
Value(type, text, size, int, fields) ==
  [type |-> type, text |-> text, size |-> size, int |-> int, fields |-> fields]
Text(text, size) == Value("String", text, size, 0, NoFields)
Number(n) == Value("Integer", "", 0, n, NoFields)
Object(fields) == Value("Object", "", 0, 0, fields)

MaxStringBytes == 4096
NoSeq == -1        \* a message without a sequence number

\* The first thing wrong, if any.
First(verdict, next) == IF verdict # "None" THEN verdict ELSE next

----------------------------------------------------------------------------
(***************************************************************************)
(* Fields.                                                                 *)
(***************************************************************************)
\* A value that is no string, integer or object, or a string that is too long, makes
\* the object around it unreadable.
Readable(fields) ==
  IF \E field \in DOMAIN fields : fields[field].type \notin {"String", "Integer", "Object"}
  THEN "MalformedJson"
  ELSE IF \E field \in DOMAIN fields : fields[field].size > MaxStringBytes
  THEN "StringTooLarge"
  ELSE "None"

AuthorityFields ==
  {"position", "hp", "cooldown", "damage", "score", "team", "matchResult", "objectiveState",
   "playerId"}

ClaimsNoAuthority(fields) ==
  IF AuthorityFields \cap DOMAIN fields # {} THEN "InvalidField" ELSE "None"

RequireString(fields, field, maxBytes) ==
  IF field \notin DOMAIN fields THEN "MissingField"
  ELSE IF fields[field].type = "String" /\ fields[field].size \in 1 .. maxBytes THEN "None"
  ELSE "InvalidField"

RequireObject(fields, field) ==
  IF field \notin DOMAIN fields THEN "MissingField"
  ELSE IF fields[field].type = "Object" THEN Readable(fields[field].fields)
  ELSE "InvalidField"

ValidDirection(fields) ==
  IF ~({"x", "y"} \subseteq DOMAIN fields) THEN "MissingField"
  ELSE IF /\ fields["x"].type = "Integer" /\ fields["x"].int \in -1 .. 1
          /\ fields["y"].type = "Integer" /\ fields["y"].int \in -1 .. 1
          /\ <<fields["x"].int, fields["y"].int>> # <<0, 0>>
  THEN "None" ELSE "InvalidField"

----------------------------------------------------------------------------
(***************************************************************************)
(* Payloads, by the type of their message.                                 *)
(***************************************************************************)
ValidAuth(fields) ==
  First(RequireString(fields, "mode", 32),
    CASE fields["mode"].text = "demo"     -> RequireString(fields, "displayName", 64)
      [] fields["mode"].text = "telegram" -> RequireString(fields, "initData", 4096)
      [] OTHER                            -> "InvalidField")

ValidCreate(fields) ==
  First(RequireString(fields, "mode", 32),
    First(RequireString(fields, "scenario", 64),
      IF /\ fields["mode"].text = "objective_run"
         /\ fields["scenario"].text = "arena_small_objective_run"
      THEN "None" ELSE "InvalidField"))

ValidStartNext(fields) ==
  First(ClaimsNoAuthority(fields), RequireString(fields, "matchId", 64))

ValidCommand(command) ==
  First(ClaimsNoAuthority(command),
    First(RequireString(command, "kind", 32),
      CASE command["kind"].text \in {"move", "aim", "attack", "dash"} ->
             First(RequireObject(command, "direction"),
                   ValidDirection(command["direction"].fields))
        [] command["kind"].text \in {"interact", "stop"} -> "None"
        [] OTHER -> "InvalidField"))

ValidInput(fields) ==
  First(RequireString(fields, "matchId", 64),
    First(RequireObject(fields, "command"), ValidCommand(fields["command"].fields)))

ValidPayload(type, fields) ==
  CASE type = "AuthRequest"    -> ValidAuth(fields)
    [] type = "CreateMatch"    -> ValidCreate(fields)
    [] type = "JoinMatch"      -> RequireString(fields, "matchCode", 32)
    [] type = "StartNextMatch" -> ValidStartNext(fields)
    [] type = "InputCommand"   -> ValidInput(fields)
    [] OTHER                   -> "None"

PhaseAllows(type, phase) ==
  CASE type \in {"CreateMatch", "JoinMatch"}       -> phase = "Authenticated"
    [] type \in {"StartNextMatch", "InputCommand"} -> phase = "InMatch"
    [] type \in {"AuthRequest", "Handshake"}       -> phase = "Connected"
    [] type \in {"Ping", "Pong"}                   -> TRUE

\* validateClientEnvelope: "None", or what is wrong with the message.
Verdict(type, seq, fields, phase) ==
  IF type \in ServerTypes THEN "InvalidField"
  ELSE IF ~PhaseAllows(type, phase) THEN "InvalidMessageOrder"
  ELSE IF type = "InputCommand" /\ seq = NoSeq THEN "MissingField"
  ELSE First(Readable(fields), ValidPayload(type, fields))
=============================================================================
