------------------------------ MODULE MCProgram ------------------------------
(* A small instance of Program for TLC: a configuration that is accepted, and
   one for each way to leave that. *)
EXTENDS Program

Usual == [io |-> 2, workers |-> 0, multiplier |-> 1, queue |-> 1, limiterShards |-> 1,
          sample |-> 1, logQueue |-> 1, cache |-> TRUE, cacheShards |-> 1,
          cacheEntries |-> 1, cacheBytes |-> 2, cacheFile |-> 1, parts |-> 1,
          uploads |-> TRUE, uploadFile |-> 2, uploadField |-> 1, body |-> 2,
          auth |-> TRUE, bearer |-> FALSE, tokens |-> <<"a">>, secrets |-> TRUE,
          rotateBytes |-> 1, rotateKeep |-> 1, admin |-> TRUE]

SomeConfigs ==
    {Usual}
    \cup {[Usual EXCEPT ![f] = 0] : f \in {"io", "multiplier", "queue", "limiterShards",
             "sample", "logQueue", "cacheShards", "cacheEntries", "cacheBytes", "parts",
             "uploadFile", "rotateKeep", "rotateBytes"}}
    \cup {[Usual EXCEPT ![f] = 3] : f \in {"cacheFile", "uploadFile", "uploadField", "workers"}}
    \cup {[Usual EXCEPT !.cache = FALSE, !.cacheEntries = 0],
          [Usual EXCEPT !.uploads = FALSE, !.uploadFile = 0],
          [Usual EXCEPT !.tokens = <<"a", "a">>], [Usual EXCEPT !.auth = FALSE],
          [Usual EXCEPT !.tokens = <<>>, !.secrets = FALSE],
          [Usual EXCEPT !.secrets = FALSE], [Usual EXCEPT !.io = 1]}

SomeSecrets == {<<>>, <<"b">>, <<"a">>, <<"b", "b">>}
=============================================================================
