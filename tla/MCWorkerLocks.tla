--------------------------- MODULE MCWorkerLocks ---------------------------
(***************************************************************************)
(* Instances of WorkerLocks: which requests reach the worker, of which     *)
(* kind, and which requests the batches send.                              *)
(***************************************************************************)
EXTENDS WorkerLocks, TLC

None == "none"

\* A batchEdit of one edit between its checkpoints, a batchRead of one read, a
\* batchEdit that contains another, and two writes.
MixReq  == {"edit", "start", "x1", "end", "undo", "batch", "s1",
            "outer", "inner", "oundo", "iundo", "ix", "w1", "w2"}
MixKind == [r \in MixReq |-> CASE r \in {"edit", "outer", "inner"} -> "batchEdit"
                                [] r = "batch" -> "batchRead"
                                [] r = "s1" -> "read" [] OTHER -> "write"]
MixSubs == [r \in MixReq |-> CASE r = "edit" -> <<"start", "x1", "end">>
                                [] r = "batch" -> <<"s1">> [] r = "outer" -> <<"inner">>
                                [] r = "inner" -> <<"ix">> [] OTHER -> <<>>]
MixUndo == [r \in MixReq |-> CASE r = "edit" -> "undo" [] r = "outer" -> "oundo"
                                [] r = "inner" -> "iundo" [] OTHER -> None]

\* A batchRead against two writers and a reader.
ReadReq  == {"batch", "s1", "s2", "w1", "w2", "r1"}
ReadKind == [r \in ReadReq |-> CASE r = "batch" -> "batchRead"
                                  [] r \in {"w1", "w2"} -> "write" [] OTHER -> "read"]
ReadSubs == "batch" :> <<"s1", "s2">> @@ [r \in ReadReq |-> <<>>]
ReadUndo == [r \in ReadReq |-> None]

\* A batchEdit inside a batchEdit, with a writer and a reader.
NestReq  == {"outer", "start", "inner", "end", "undo", "istart", "iend", "iundo", "w1", "r1"}
NestKind == [r \in NestReq |-> CASE r \in {"outer", "inner"} -> "batchEdit"
                                  [] r = "r1" -> "read" [] OTHER -> "write"]
NestSubs == "outer" :> <<"start", "inner", "end">> @@ "inner" :> <<"istart", "iend">>
                @@ [r \in NestReq |-> <<>>]
NestUndo == "outer" :> "undo" @@ "inner" :> "iundo" @@ [r \in NestReq |-> None]

\* A model transformation request that writes to this worker's console while
\* it is being handled, and a writer.
MtwReq  == {"mtw", "console", "w1"}
MtwKind == [r \in MtwReq |-> CASE r = "mtw" -> "mtwRequest" [] r = "console" -> "read"
                                [] OTHER -> "write"]
MtwSubs == "mtw" :> <<"console">> @@ [r \in MtwReq |-> <<>>]
MtwUndo == [r \in MtwReq |-> None]
=============================================================================
