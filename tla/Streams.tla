------------------------------- MODULE Streams -------------------------------
(* What the account server promises the streams of its game servers: bytes    *)
(* come out of a stream in the order in which they went in, whole lines at a  *)
(* time on the way in, and no stream gets those of another, whatever pool of  *)
(* buffers they share.  A piece that does not fit is dropped as a whole.      *)
EXTENDS Sequences, SequencesExt, Naturals

CONSTANT Streams

VARIABLES inq, outq   \* bytes received and not read, written and not sent

streamVars == <<inq, outq>>

StreamsInit == inq = [i \in Streams |-> <<>>] /\ outq = [i \in Streams |-> <<>>]

\* What one stream's queue q may become, r; those of the others stay.
Only(q, r, i) == r = [q EXCEPT ![i] = r[i]]

Grows(q, r, i) == Only(q, r, i) /\ IsPrefix(q[i], r[i])

Shrinks(q, r, i) == Only(q, r, i) /\ IsSuffix(r[i], q[i])

TakesLine(q, r, i) ==
    /\ Only(q, r, i)
    /\ \E k \in 1 .. Len(q[i]) :
         /\ q[i][k] = "nl"
         /\ \A m \in 1 .. k - 1 : q[i][m] # "nl"
         /\ r[i] = SubSeq(q[i], k + 1, Len(q[i]))

Empties(q, r, i) == r = [q EXCEPT ![i] = <<>>]

Step(in, in2, out, out2) ==
    \E i \in Streams :
        \/ out2 = out /\ (Grows(in, in2, i) \/ TakesLine(in, in2, i))
        \/ in2 = in /\ (Grows(out, out2, i) \/ Shrinks(out, out2, i))
        \/ Empties(in, in2, i) /\ Empties(out, out2, i)

StreamsNext == Step(inq, inq', outq, outq')

StreamsSpec == StreamsInit /\ [][StreamsNext]_streamVars
==============================================================================
