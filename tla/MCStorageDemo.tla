--------------------------- MODULE MCStorageDemo ---------------------------
(* Values for the constants of StorageDemo, for model checking.            *)
EXTENDS StorageDemo, ClientScenarios

CONSTANT PoolSize

MCSlots == 1 .. PoolSize
MCScript == [c \in Clients |-> DemoScript(c)]
MCPayloads == UNION {{MCScript[c][k].load : k \in DOMAIN MCScript[c]} : c \in Clients}
NoTasks == {}
AllTasks == Clients \cup {"StorageSvc"}
AllClients == Clients

(* A state without the numbers of its slots.  With one generation the pool *)
(* is symmetric in them (first-fit only picks a name), so that states with *)
(* the same view have the same futures up to a renaming of slots.  A future*)
(* is replaced by what its slot holds, a request by what it asks for, for  *)
(* whom and whether it still waits: a requester never has two that agree   *)
(* in that, so the view says which future goes with which request.  The    *)
(* number of slots in use tells a slot that nobody holds from a free one.  *)
(* Blocks that no script reads are left out.                               *)
ReadBlocks == {p.blk : p \in {q \in MCPayloads : q.cmd = "Read"}}
SlotView(s) == <<st[s], ans[s]>>
DemoView ==
  <<pc, good, at, volumeReady, mounted, fileOpen, mediaUp, formatted,
    [b \in ReadBlocks |-> disk[b]], outcome, published, stopRequested,
    Cardinality(LiveSlots),
    [c \in Clients |-> [h \in Futures |->
       IF fut[c][h] = NoFuture THEN <<>> ELSE SlotView(fut[c][h].slot)]],
    [i \in DOMAIN queue |-> <<queue[i].load, queue[i].from, st[queue[i].promise.slot]>>],
    IF request = NoRequest THEN <<>>
    ELSE <<request.load, request.from, st[request.promise.slot]>> >>

=============================================================================
