--------------------------- MODULE MCTableStruct ---------------------------
(* TableStruct for TLC: tables of up to two columns out of six names, of   *)
(* which user_id and UserID make the same field, a name with a dash is     *)
(* refused, and two are called as the embedded types; and the tables users *)
(* and Users, which fold to the same, and one with an umlaut, which        *)
(* Postgres does not fold.                                                 *)
EXTENDS TableStruct, TLC

CONSTANTS user_id, UserID, born, dashed, model, recorder, users, Users, Aerzte

MCName == {user_id, UserID, born, dashed, model, recorder}
MCGoName ==
  (user_id :> "UserID") @@ (UserID :> "UserID") @@ (born :> "Born") @@ (dashed :> NoIdent)
  @@ (model :> "Model") @@ (recorder :> "Recorder")

(* Columns by the kinds of type that the code tells apart.                 *)
MCDefinition ==
  {d \in [name : MCName, type : {"integer", "temporal", "string"}, null : BOOLEAN,
          serial : BOOLEAN, keys : SUBSET {"PRIMARY KEY", "FOREIGN KEY"}] :
     /\ d.serial => d.type = "integer" /\ ~d.null
     /\ d.name = dashed => d.type = "string"
     /\ d.name \in {model, recorder} => d.type = "string" /\ ~d.null /\ d.keys = {}}

AllTables ==
  {<<>>} \cup {<<d>> : d \in MCDefinition}
  \cup {<<d, e>> : d \in MCDefinition, e \in MCDefinition}

Distinct(t) == \A i, j \in DOMAIN t : i # j => t[i].name # t[j].name

MCTableName == {users, Users, Aerzte}
MCGoLower == (users :> "users") @@ (Users :> "users") @@ (Aerzte :> "aerzte")
MCDbLower == (users :> "users") @@ (Users :> "users") @@ (Aerzte :> "Aerzte")

(* A table of its own; or users next to Users, which is given too or not;  *)
(* or next to the name that the database does not fold.                    *)
Alone == {[name |-> users, given |-> {users}, schema |-> users :> t] :
            t \in {t \in AllTables : Distinct(t)}}

Plain ==
  {d \in MCDefinition :
     /\ d.name \in {user_id, born} /\ d.type \in {"integer", "string"}
     /\ ~d.null /\ ~d.serial /\ d.keys \subseteq {"PRIMARY KEY"}}

Beside(other) ==
  {[name |-> name, given |-> given, schema |-> (users :> <<d>>) @@ (other :> <<e, f>>)] :
     name \in {users, other}, given \in {{users}, {other}, {users, other}},
     d \in Plain, e \in {e \in Plain : e.name = born}, f \in {f \in Plain : f.name = user_id}}

MCQueries ==
  {q \in Alone \cup Beside(Users) \cup Beside(Aerzte) :
     q.name \in q.given /\ \A t \in DOMAIN q.schema : Distinct(q.schema[t])}

MCSettings == {s \in SettingsType : s.recorder => s.gorm}
=============================================================================
