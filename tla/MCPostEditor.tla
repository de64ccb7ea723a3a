---------------------------- MODULE MCPostEditor ----------------------------
(***************************************************************************)
(* PostEditor with the first rows of the table of emojis and a few terms.  *)
(***************************************************************************)
EXTENDS PostEditor, TLC

MCEmojis == <<"grinning_face", "grinning_face_with_big_eyes",
              "grinning_face_with_smiling_eyes", "beaming_face_with_smiling_eyes",
              "grinning_squinting_face", "grinning_face_with_sweat",
              "rolling_on_the_floor_laughing">>

MCTerms  == {"", "f", "face", "s", "ro"}
MCLonger == ("" :> {"f", "s", "ro"}) @@ ("f" :> {"face"}) @@ [t \in {"face", "s", "ro"} |-> {}]

Found == ("" :> 1..7) @@ ("f" :> 1..7) @@ ("face" :> 1..6) @@ ("s" :> 2..6) @@ ("ro" :> {7})
MCFinds == {<<MCEmojis[r], t>> : <<r, t>> \in {x \in (1..7) \X MCTerms : x[1] \in Found[x[2]]}}
=============================================================================
