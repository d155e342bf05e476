------------------------- MODULE MCEmbeddingIndexer -------------------------
(* Instances of EmbeddingIndexer for TLC. *)
EXTENDS EmbeddingIndexer, TLC

\* "plain" embeds nothing, "linked" embeds the file.
MCTexts  == {"plain", "linked"}
MCFiles  == {"memo"}
MCEmbeds == ("plain" :> {}) @@ ("linked" :> MCFiles)
=============================================================================
