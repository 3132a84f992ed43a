--------------------------- MODULE MCSandboxFiles ---------------------------
(* One file x and a free name y.  p1 and p2 are calls of one agent, s of       *)
(* another one that shares the files.                                          *)
EXTENDS SandboxFiles

CONSTANTS p1, p2, s, x, y, home, other

On(kind, its) == [kind |-> kind, items |-> its]
One(k, p, to) == On(k, <<[k |-> k, p |-> p, to |-> to]>>)
Do(k, p, to) == [k |-> k, p |-> p, to |-> to]

MCCell == [c \in Calls |-> IF c = s THEN other ELSE home]
MCMaxBytes == [k \in Cells |-> IF k = home THEN 4 ELSE 0]
MCOps ==
    [c \in Calls |->
        CASE c = p1 -> {On("batch", b) : b \in {<<Do("update", x, x), Do("add", y, y)>>,
                                                <<Do("delete", x, x), Do("add", y, y)>>,
                                                <<Do("rewrite", x, y)>>, <<Do("move", x, y)>>}}
          [] c = p2 -> {On("batch", <<Do("update", x, x)>>), One("append", x, x)}
          [] c = s -> {One("append", x, x), One("append", y, y), One("write", x, x),
                       One("remove", x, x), One("rename", x, y)}]
=============================================================================
