----------------------------- MODULE AutoSyncMC -----------------------------
(* Small instances of AutoSync: one topic and one note, two folders.      *)
EXTENDS AutoSync

OneName    == {1}
Nothing    == {}
OneTopic   == {<<1>>}
OwnWord    == [a \in OneName |-> {a}]
Silent     == [p \in OneTopic |-> {}]
OneNote    == {1}
Places     == <<<<1>>>>
SomeMetas  == {[tags |-> {}, prop |-> {}, title |-> 1],
               [tags |-> {<<1>>}, prop |-> {}, title |-> 1]}
SomeNotes  == <<[tags |-> {}, prop |-> {}, title |-> 1]>>
BothDocs   == {OneTopic, {}}
TwoFolders == {<<1>>, <<2>>}
=============================================================================
