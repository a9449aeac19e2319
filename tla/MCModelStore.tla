---------------------------- MODULE MCModelStore ----------------------------
EXTENDS ModelStore

\* The entries of core/models.yaml: the local artifact that has its tokenizer
\* with it, the remote model that borrows one, and the one it borrows from.
MCModels ==
    << [id |-> "hushmark-tr", local |-> TRUE, files |-> <<"source", "weights">>,
        tokenizer |-> "hushmark-tr", embeds |-> TRUE],
       [id |-> "gliner_multi", local |-> FALSE, files |-> <<"source", "weights">>,
        tokenizer |-> "mdeberta", embeds |-> FALSE],
       [id |-> "mdeberta", local |-> FALSE, files |-> <<"config">>,
        tokenizer |-> None, embeds |-> FALSE] >>

MCPrivateFiles == <<"encoder", "head">>
=============================================================================
