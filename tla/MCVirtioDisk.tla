---- MODULE MCVirtioDisk ----
(* An instance of VirtioDisk for TLC. *)
EXTENDS VirtioDisk

CONSTANTS t1, t2, t3, r1

MCTasks == {t1, t2, t3}
MCRequest == {r1}

\* The entries of a ring between two of its indices, in order.
Entries(ring, from, to) ==
    [k \in 0..(((to + IdxMod - from) % IdxMod) - 1) |-> ring[(from + k) % NUM]]

\* What a later step can read: ring entries that were consumed, and ops, done and
\* status of a descriptor that heads no chain, are written before they are read
\* again, so states that differ only there have the same futures.
MCView ==
    <<free, nxt, more, buffer, reply,
      Entries(avail, taken, avail_idx), Entries(used, used_idx, used_end),
      avail_idx, taken, used_idx, used_end, serving, pending, needs_reset, lock,
      request_queue, pc, req, head, served,
      [t \in {u \in Tasks : head[u] /= None} |-> <<ops[head[t]], done[head[t]], status[head[t]]>>]>>
====
