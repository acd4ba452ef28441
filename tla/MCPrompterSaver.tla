--------------------------- MODULE MCPrompterSaver ---------------------------
(* The saver with the values TLC checks it with. *)
EXTENDS PrompterSaver

CONSTANT sa

OneArchive == {<<"white", 60>>}
BothThreads == BOOLEAN
OnlyThread == {TRUE}
=============================================================================
