------------------------ MODULE LayerRecordingProofs ------------------------
(* Theorems about LayerRecording: for any number of layers, prompt, steps    *)
(* and lists in flight, each attention reads the rows of its own tokens,     *)
(* every view, barrier and transition is the one the GPU needs.  First the   *)
(* lists a recording is made of, then the invariant, then the commands.      *)
EXTENDS LayerRecording, SequenceTheorems, WellFoundedInduction, TLAPS

-----------------------------------------------------------------------------
(* The operations of a recording, whatever list they are put into            *)

ResourceStates == {"uav", "srv", "copySrc", "copyDst"}
Kernels == {"embed", "ln", "mm", "attn", "add", "gelu"}
Operation ==
    [op : {"view"}, slot : {0, 1}, name : Names]
    \cup [op : {"copyView"}, slot : {1, LN2}, from : Slots]
    \cup [op : {"dispatch"}, kernel : Kernels, srv : Slots, uav : Slots, src : Seq(Names)]
    \cup [op : {"uavBarrier"}, name : Names]
    \cup [op : {"transition"}, name : Names, before : ResourceStates, after : ResourceStates]
    \cup [op : {"copyRow"}, name : Caches, from : Names]
    \cup [op : {"copyLogits"}, name : {"logits"}]

\* A second LayerNorm view is copied from slot 0 right after that is X's.
CopiesX(s) ==
    \A i \in 1 .. Len(s) : s[i].op = "copyView" /\ s[i].slot = LN2 =>
        i > 1 /\ s[i].from = 0 /\ s[i - 1] = View(0, "X")

\* A dispatch is followed by the barrier on the buffer its UAV register names.
Fences(a, b) ==
    /\ a.uav + UavRegister(a.kernel) \in 2 .. 22
    /\ b = UavBarrier(Window[a.uav + UavRegister(a.kernel) + 1])
    /\ a.kernel = "attn" => a.srv = 0
    /\ a.kernel = "ln" =>
         /\ a.srv \in 2 .. 20
         /\ \A i \in 0 .. 2 : a.src[i + 1] = Window[a.srv + i + 1]
Fenced(s) ==
    \A i \in 1 .. Len(s) : s[i].op = "dispatch" => i < Len(s) /\ Fences(s[i], s[i + 1])

\* Transitions and row copies come in the five of StoreRow.
Group(s, g, c, f) ==
    /\ g + 4 <= Len(s)
    /\ s[g] = Transition(f, "uav", "copySrc") /\ s[g + 1] = Transition(c, "srv", "copyDst")
    /\ s[g + 2] = CopyRow(c, f)
    /\ s[g + 3] = Transition(f, "copySrc", "uav") /\ s[g + 4] = Transition(c, "copyDst", "srv")
Grouped(s) ==
    \A i \in 1 .. Len(s) : s[i].op \in {"transition", "copyRow"} =>
        \E g \in 1 .. Len(s), c \in Caches, f \in {"K", "V"} :
            i \in g .. g + 4 /\ Group(s, g, c, f)

Good(s, n) ==
    /\ s \in Seq(Operation) /\ Len(s) = n
    /\ \A i \in 1 .. Len(s) : s[i].op # "copyLogits"
    /\ CopiesX(s) /\ Fenced(s) /\ Grouped(s)

LEMMA ConcatGood ==
    ASSUME NEW s, NEW t, NEW m \in Nat, NEW n \in Nat, Good(s, m), Good(t, n)
    PROVE  Good(s \o t, m + n)
<1> PICK r : r = s \o t
    OBVIOUS
<1>1. /\ s \in Seq(Operation) /\ Len(s) = m /\ t \in Seq(Operation) /\ Len(t) = n
    BY DEF Good
<1>2. r \in Seq(Operation) /\ Len(r) = m + n
    BY <1>1, ConcatProperties
<1>3. \A i \in 1 .. m : r[i] = s[i]
    <2>1. \A i \in 1 .. m + n : r[i] = IF i <= m THEN s[i] ELSE t[i - m]
        BY <1>1, ConcatProperties
    <2> TAKE i \in 1 .. m
    <2>2. i \in 1 .. m + n /\ i <= m
        OBVIOUS
    <2> QED
        BY <2>1, <2>2
<1>4. \A i \in 1 .. n : r[m + i] = t[i]
    <2>1. \A i \in 1 .. m + n : r[i] = IF i <= m THEN s[i] ELSE t[i - m]
        BY <1>1, ConcatProperties
    <2> TAKE i \in 1 .. n
    <2>2. m + i \in 1 .. m + n /\ ~(m + i <= m) /\ (m + i) - m = i
        OBVIOUS
    <2> QED
        BY <2>1, <2>2
<1>5. \A i \in 1 .. m + n : i \in 1 .. m \/ \E k \in 1 .. n : i = m + k
    <2> TAKE i \in 1 .. m + n
    <2> CASE i > m
        <3>1. i - m \in 1 .. n /\ i = m + (i - m)
            OBVIOUS
        <3> QED
            BY <3>1
    <2> QED
        OBVIOUS
<1>6. CopiesX(r)
    <2> SUFFICES ASSUME NEW i \in 1 .. m + n, r[i].op = "copyView", r[i].slot = LN2
                 PROVE  i > 1 /\ r[i].from = 0 /\ r[i - 1] = View(0, "X")
        BY <1>2 DEF CopiesX
    <2>1. CASE i \in 1 .. m
        <3>1. i > 1 /\ s[i].from = 0 /\ s[i - 1] = View(0, "X")
            BY <1>1, <1>3, <2>1 DEF Good, CopiesX
        <3>2. i - 1 \in 1 .. m
            BY <2>1, <3>1
        <3> QED
            BY <1>3, <2>1, <3>1, <3>2
    <2>2. ASSUME NEW k \in 1 .. n, i = m + k PROVE i > 1 /\ r[i].from = 0 /\ r[i - 1] = View(0, "X")
        <3>1. k > 1 /\ t[k].from = 0 /\ t[k - 1] = View(0, "X")
            BY <1>1, <1>4, <2>2 DEF Good, CopiesX
        <3>2. k - 1 \in 1 .. n /\ m + (k - 1) = i - 1 /\ i > 1
            BY <2>2, <3>1
        <3>3. r[i] = t[k]
            BY <1>4, <2>2
        <3>4. r[m + (k - 1)] = t[k - 1]
            BY <1>4, <3>2
        <3> QED
            BY <3>1, <3>2, <3>3, <3>4
    <2> QED
        BY <1>5, <2>1, <2>2
<1>7. Fenced(r)
    <2> SUFFICES ASSUME NEW i \in 1 .. m + n, r[i].op = "dispatch"
                 PROVE  i < m + n /\ Fences(r[i], r[i + 1])
        BY <1>2 DEF Fenced
    <2>1. CASE i \in 1 .. m
        <3>1. i < m /\ Fences(s[i], s[i + 1])
            BY <1>1, <1>3, <2>1 DEF Good, Fenced
        <3>2. i + 1 \in 1 .. m
            BY <2>1, <3>1
        <3>3. r[i] = s[i] /\ r[i + 1] = s[i + 1]
            BY <1>3, <2>1, <3>2
        <3>4. i < m + n
            BY <3>1
        <3> QED
            BY <3>1, <3>3, <3>4
    <2>2. ASSUME NEW k \in 1 .. n, i = m + k PROVE i < m + n /\ Fences(r[i], r[i + 1])
        <3>1. k < n /\ Fences(t[k], t[k + 1])
            BY <1>1, <1>4, <2>2 DEF Good, Fenced
        <3>2. k + 1 \in 1 .. n /\ m + (k + 1) = i + 1
            BY <2>2, <3>1
        <3>3. r[i] = t[k] /\ r[i + 1] = t[k + 1]
            BY <1>4, <2>2, <3>2
        <3>4. i < m + n
            BY <2>2, <3>1
        <3> QED
            BY <3>1, <3>3, <3>4
    <2> QED
        BY <1>5, <2>1, <2>2
<1>8. Grouped(r)
    <2> SUFFICES ASSUME NEW i \in 1 .. m + n, r[i].op \in {"transition", "copyRow"}
                 PROVE  \E g \in 1 .. m + n, c \in Caches, f \in {"K", "V"} :
                            i \in g .. g + 4 /\ Group(r, g, c, f)
        BY <1>2 DEF Grouped
    <2>1. CASE i \in 1 .. m
        <3>1. PICK g \in 1 .. m, c \in Caches, f \in {"K", "V"} : i \in g .. g + 4 /\ Group(s, g, c, f)
            BY <1>1, <1>3, <2>1 DEF Good, Grouped
        <3>2. g + 4 <= m
            BY <1>1, <3>1 DEF Group
        <3>3. g \in 1 .. m /\ g + 1 \in 1 .. m /\ g + 2 \in 1 .. m /\ g + 3 \in 1 .. m /\ g + 4 \in 1 .. m
            BY <3>2
        <3>4. r[g] = s[g] /\ r[g + 1] = s[g + 1] /\ r[g + 2] = s[g + 2] /\ r[g + 3] = s[g + 3]
              /\ r[g + 4] = s[g + 4]
            BY <1>3, <3>3
        <3>5. g + 4 <= m + n /\ g \in 1 .. m + n
            BY <3>2
        <3>6. Group(r, g, c, f)
            BY <1>2, <3>1, <3>4, <3>5 DEF Group
        <3> QED
            BY <3>1, <3>5, <3>6
    <2>2. ASSUME NEW k \in 1 .. n, i = m + k
          PROVE  \E g \in 1 .. m + n, c \in Caches, f \in {"K", "V"} :
                    i \in g .. g + 4 /\ Group(r, g, c, f)
        <3>1. PICK g \in 1 .. n, c \in Caches, f \in {"K", "V"} : k \in g .. g + 4 /\ Group(t, g, c, f)
            BY <1>1, <1>4, <2>2 DEF Good, Grouped
        <3>2. g + 4 <= n
            BY <1>1, <3>1 DEF Group
        <3> PICK h : h = m + g
            OBVIOUS
        <3>4. r[h] = t[g] /\ r[h + 1] = t[g + 1] /\ r[h + 2] = t[g + 2] /\ r[h + 3] = t[g + 3]
              /\ r[h + 4] = t[g + 4]
            <4>1. h = m + g /\ h + 1 = m + (g + 1) /\ h + 2 = m + (g + 2) /\ h + 3 = m + (g + 3)
                  /\ h + 4 = m + (g + 4)
                OBVIOUS
            <4>2. g + 1 \in 1 .. n /\ g + 2 \in 1 .. n /\ g + 3 \in 1 .. n /\ g + 4 \in 1 .. n
                BY <3>2
            <4> QED
                BY <1>4, <4>1, <4>2
        <3>5. h + 4 <= m + n /\ h \in 1 .. m + n /\ i \in h .. h + 4
            BY <2>2, <3>1, <3>2
        <3>6. Group(r, h, c, f)
            BY <1>2, <3>1, <3>4, <3>5 DEF Group
        <3> QED
            BY <3>5, <3>6
    <2> QED
        BY <1>5, <2>1, <2>2
<1>9. \A i \in 1 .. m + n : r[i].op # "copyLogits"
    BY <1>1, <1>3, <1>4, <1>5 DEF Good
<1> QED
    BY <1>2, <1>6, <1>7, <1>8, <1>9 DEF Good

LEMMA WindowIs ==
    /\ Len(Window) = 23 /\ DOMAIN Window = 1 .. 23 /\ Slots = 0 .. 22
    /\ Window[1] = "X" /\ Window[2] = "Wq" /\ Window[3] = "Wk" /\ Window[4] = "Wv"
    /\ Window[5] = "Wo" /\ Window[6] = "W1" /\ Window[7] = "W2" /\ Window[8] = "embed"
    /\ Window[9] = "Kcache" /\ Window[10] = "Vcache" /\ Window[11] = "X"
    /\ Window[12] = "gamma1" /\ Window[13] = "beta1" /\ Window[14] = "X"
    /\ Window[15] = "gamma2" /\ Window[16] = "beta2" /\ Window[17] = "X"
    /\ Window[18] = "Q" /\ Window[19] = "K" /\ Window[20] = "V" /\ Window[21] = "Out"
    /\ Window[22] = "H" /\ Window[23] = "logits"
<1>1. Len(Window) = 23 /\ DOMAIN Window = 1 .. 23
    BY DEF Window
<1>2. /\ Window[1] = "X" /\ Window[2] = "Wq" /\ Window[3] = "Wk" /\ Window[4] = "Wv"
      /\ Window[5] = "Wo" /\ Window[6] = "W1" /\ Window[7] = "W2" /\ Window[8] = "embed"
      /\ Window[9] = "Kcache" /\ Window[10] = "Vcache" /\ Window[11] = "X"
      /\ Window[12] = "gamma1" /\ Window[13] = "beta1" /\ Window[14] = "X"
      /\ Window[15] = "gamma2" /\ Window[16] = "beta2" /\ Window[17] = "X"
      /\ Window[18] = "Q" /\ Window[19] = "K" /\ Window[20] = "V" /\ Window[21] = "Out"
      /\ Window[22] = "H" /\ Window[23] = "logits"
    BY DEF Window
<1>3. Slots = 0 .. 22
    BY <1>1 DEF Slots
<1> QED
    BY <1>1, <1>2, <1>3

LEMMA NamesAre ==
    /\ {"X", "Wq", "Wk", "Wv", "Wo", "W1", "W2", "embed", "Kcache", "Vcache", "gamma1", "beta1",
        "gamma2", "beta2", "Q", "K", "V", "Out", "H", "logits", "lmHead"} \subseteq Names
    /\ \A i \in 1 .. 23 : Window[i] \in Names
BY WindowIs DEF Names

LEMMA ViewGood ==
    ASSUME NEW slot \in {0, 1}, NEW name \in Names
    PROVE  Good(<<View(slot, name)>>, 1)
<1> PICK s : s = <<View(slot, name)>>
    OBVIOUS
<1>1. View(slot, name) \in Operation /\ View(slot, name).op = "view"
    BY DEF View, Operation
<1>2. s \in Seq(Operation) /\ Len(s) = 1 /\ s[1] = View(slot, name)
    BY <1>1
<1>3. \A i \in 1 .. Len(s) : s[i].op = "view"
    BY <1>1, <1>2
<1> QED
    BY <1>2, <1>3 DEF Good, CopiesX, Fenced, Grouped

LEMMA CopyViewGood ==
    ASSUME NEW from \in Slots
    PROVE  Good(<<CopyView(1, from)>>, 1)
<1> PICK s : s = <<CopyView(1, from)>>
    OBVIOUS
<1>1. CopyView(1, from) \in Operation /\ CopyView(1, from).op = "copyView" /\ CopyView(1, from).slot = 1
    BY DEF CopyView, Operation
<1>2. s \in Seq(Operation) /\ Len(s) = 1 /\ s[1] = CopyView(1, from)
    BY <1>1
<1>3. \A i \in 1 .. Len(s) : s[i].op = "copyView" /\ s[i].slot # LN2
    BY <1>1, <1>2 DEF LN2
<1> QED
    BY <1>2, <1>3 DEF Good, CopiesX, Fenced, Grouped

LEMMA KernelGood ==
    ASSUME NEW kernel \in Kernels, NEW srv \in Slots, NEW uav \in Slots, NEW src \in Seq(Names),
           NEW out \in Names,
           Fences(Dispatch(kernel, srv, uav, src), UavBarrier(out))
    PROVE  Good(Kernel(kernel, srv, uav, src, out), 2)
<1> PICK s : s = Kernel(kernel, srv, uav, src, out)
    OBVIOUS
<1>0. s = <<Dispatch(kernel, srv, uav, src), UavBarrier(out)>>
    BY DEF Kernel
<1>1. /\ Dispatch(kernel, srv, uav, src) \in Operation
      /\ Dispatch(kernel, srv, uav, src).op = "dispatch"
    BY DEF Dispatch, Operation
<1>2. UavBarrier(out) \in Operation /\ UavBarrier(out).op = "uavBarrier"
    BY DEF UavBarrier, Operation
<1>3. s \in Seq(Operation) /\ Len(s) = 2 /\ s[1] = Dispatch(kernel, srv, uav, src)
      /\ s[2] = UavBarrier(out)
    BY <1>0, <1>1, <1>2
<1>4. \A i \in 1 .. Len(s) : s[i].op \in {"dispatch", "uavBarrier"} /\ (s[i].op = "dispatch" => i = 1)
    BY <1>1, <1>2, <1>3
<1>5. Fenced(s)
    BY <1>3, <1>4 DEF Fenced
<1> QED
    BY <1>3, <1>4, <1>5 DEF Good, CopiesX, Grouped

LEMMA StoreRowGood ==
    ASSUME NEW c \in Caches, NEW f \in {"K", "V"}
    PROVE  Good(StoreRow(c, f), 5)
<1> PICK s : s = StoreRow(c, f)
    OBVIOUS
<1>1. f \in Names /\ c \in Names
    BY NamesAre DEF Caches
<1>2. /\ Transition(f, "uav", "copySrc") \in Operation /\ Transition(c, "srv", "copyDst") \in Operation
      /\ CopyRow(c, f) \in Operation
      /\ Transition(f, "copySrc", "uav") \in Operation /\ Transition(c, "copyDst", "srv") \in Operation
    <2>1. \A name \in Names, before \in ResourceStates, after \in ResourceStates :
            Transition(name, before, after) \in Operation
        BY DEF Transition, Operation
    <2>2. CopyRow(c, f) \in Operation
        BY <1>1 DEF CopyRow, Operation
    <2>3. {"uav", "srv", "copySrc", "copyDst"} \subseteq ResourceStates
        BY DEF ResourceStates
    <2> QED
        BY <1>1, <2>1, <2>2, <2>3
<1>3. /\ Transition(f, "uav", "copySrc").op = "transition" /\ Transition(c, "srv", "copyDst").op = "transition"
      /\ CopyRow(c, f).op = "copyRow"
      /\ Transition(f, "copySrc", "uav").op = "transition" /\ Transition(c, "copyDst", "srv").op = "transition"
    BY DEF Transition, CopyRow
<1>4. s \in Seq(Operation) /\ Len(s) = 5
      /\ s[1] = Transition(f, "uav", "copySrc") /\ s[2] = Transition(c, "srv", "copyDst")
      /\ s[3] = CopyRow(c, f)
      /\ s[4] = Transition(f, "copySrc", "uav") /\ s[5] = Transition(c, "copyDst", "srv")
    BY <1>2 DEF StoreRow
<1>5. \A i \in 1 .. Len(s) : s[i].op \in {"transition", "copyRow"}
    BY <1>3, <1>4
<1>6. Group(s, 1, c, f)
    BY <1>4 DEF Group
<1>7. \A i \in 1 .. Len(s) : i \in 1 .. 1 + 4 /\ 1 \in 1 .. Len(s)
    BY <1>4
<1>8. Grouped(s)
    BY <1>6, <1>7 DEF Grouped
<1> QED
    BY <1>4, <1>5, <1>8 DEF Good, CopiesX, Fenced

LEMMA RestoreViewsGood == Good(RestoreViews, 2)
<1> PICK s : s = RestoreViews
    OBVIOUS
<1>1. /\ View(0, "X") \in Operation /\ View(0, "X").op = "view"
    BY NamesAre DEF View, Operation
<1>2. /\ CopyView(LN2, 0) \in Operation /\ CopyView(LN2, 0).op = "copyView"
      /\ CopyView(LN2, 0).from = 0
    BY WindowIs DEF CopyView, Operation
<1>3. s \in Seq(Operation) /\ Len(s) = 2 /\ s[1] = View(0, "X") /\ s[2] = CopyView(LN2, 0)
    BY <1>1, <1>2 DEF RestoreViews
<1>4. \A i \in 1 .. Len(s) : s[i].op \in {"view", "copyView"} /\ (s[i].op = "copyView" => i = 2)
    BY <1>1, <1>2, <1>3
<1>5. CopiesX(s)
    BY <1>2, <1>3, <1>4 DEF CopiesX
<1> QED
    BY <1>3, <1>4, <1>5 DEF Good, Fenced, Grouped

NoCopy(s) == \A i \in 1 .. Len(s) : s[i].op # "copyRow"
NoAttention(s) == \A i \in 1 .. Len(s) : s[i].op = "dispatch" => s[i].kernel # "attn"
Plain(s, n) == Good(s, n) /\ NoCopy(s) /\ NoAttention(s)
Writes(s, k, name) == s[k].op = "dispatch" /\ k < Len(s) /\ s[k + 1] = UavBarrier(name)
Copies(s, k, c, f) == s[k] = CopyRow(c, f)

LEMMA ConcatIs ==
    ASSUME NEW s, NEW t, NEW m \in Nat, NEW n \in Nat, Good(s, m), Good(t, n)
    PROVE  /\ Len(s \o t) = m + n /\ Len(s) = m /\ Len(t) = n
           /\ \A i \in 1 .. m : (s \o t)[i] = s[i]
           /\ \A i \in 1 .. n : (s \o t)[m + i] = t[i]
           /\ \A i \in 1 .. m + n : i \in 1 .. m \/ \E k \in 1 .. n : i = m + k
<1> PICK r : r = s \o t
    OBVIOUS
<1>1. /\ s \in Seq(Operation) /\ Len(s) = m /\ t \in Seq(Operation) /\ Len(t) = n
    BY DEF Good
<1>2. /\ Len(r) = m + n
      /\ \A i \in 1 .. m + n : r[i] = IF i <= m THEN s[i] ELSE t[i - m]
    BY <1>1, ConcatProperties
<1>3. ASSUME NEW i \in 1 .. m PROVE r[i] = s[i]
    <2>1. i \in 1 .. m + n /\ i <= m
        OBVIOUS
    <2> QED
        BY <1>2, <2>1
<1>4. ASSUME NEW i \in 1 .. n PROVE r[m + i] = t[i]
    <2>1. m + i \in 1 .. m + n /\ ~(m + i <= m) /\ (m + i) - m = i
        OBVIOUS
    <2> QED
        BY <1>2, <2>1
<1>5. ASSUME NEW i \in 1 .. m + n PROVE i \in 1 .. m \/ \E k \in 1 .. n : i = m + k
    <2> CASE i > m
        <3>1. i - m \in 1 .. n /\ i = m + (i - m)
            OBVIOUS
        <3> QED
            BY <3>1
    <2> QED
        OBVIOUS
<1> QED
    BY <1>1, <1>2, <1>3, <1>4, <1>5

LEMMA ConcatPlain ==
    ASSUME NEW s, NEW t, NEW m \in Nat, NEW n \in Nat, Plain(s, m), Plain(t, n)
    PROVE  Plain(s \o t, m + n)
<1>1. Good(s, m) /\ Good(t, n)
    BY DEF Plain
<1>2. Good(s \o t, m + n)
    BY <1>1, ConcatGood
<1> PICK r : r = s \o t
    OBVIOUS
<1>3. /\ Len(r) = m + n /\ Len(s) = m /\ Len(t) = n
      /\ \A i \in 1 .. m : r[i] = s[i]
      /\ \A i \in 1 .. n : r[m + i] = t[i]
      /\ \A i \in 1 .. m + n : i \in 1 .. m \/ \E k \in 1 .. n : i = m + k
    BY <1>1, ConcatIs
<1>4. NoCopy(r)
    BY <1>3 DEF Plain, NoCopy
<1>5. NoAttention(r)
    BY <1>3 DEF Plain, NoAttention
<1> QED
    BY <1>2, <1>4, <1>5 DEF Plain

LEMMA ViewPlain ==
    ASSUME NEW slot \in {0, 1}, NEW name \in Names
    PROVE  Plain(<<View(slot, name)>>, 1)
<1>1. Good(<<View(slot, name)>>, 1)
    BY ViewGood
<1> PICK s : s = <<View(slot, name)>>
    OBVIOUS
<1>2. Len(s) = 1 /\ s[1].op = "view"
    BY DEF View
<1> QED
    BY <1>1, <1>2 DEF Plain, NoCopy, NoAttention

LEMMA CopyViewPlain ==
    ASSUME NEW from \in 0 .. 22
    PROVE  Plain(<<CopyView(1, from)>>, 1)
<1>1. Good(<<CopyView(1, from)>>, 1)
    BY CopyViewGood, WindowIs
<1> PICK s : s = <<CopyView(1, from)>>
    OBVIOUS
<1>2. Len(s) = 1 /\ s[1].op = "copyView"
    BY DEF CopyView
<1> QED
    BY <1>1, <1>2 DEF Plain, NoCopy, NoAttention

LEMMA RestoreViewsPlain == Plain(RestoreViews, 2)
<1> PICK s : s = RestoreViews
    OBVIOUS
<1>1. Len(s) = 2 /\ s[1].op = "view" /\ s[2].op = "copyView"
    BY DEF RestoreViews, View, CopyView
<1>2. \A i \in 1 .. Len(s) : s[i].op \in {"view", "copyView"}
    BY <1>1
<1> QED
    BY <1>2, RestoreViewsGood DEF Plain, NoCopy, NoAttention

LEMMA OneTwo == \A i \in 1 .. 2 : i = 1 \/ i = 2
OBVIOUS

LEMMA TuplesOfNames ==
    /\ \A a \in Names : <<a>> \in Seq(Names)
    /\ \A a \in Names, b \in Names : <<a, b>> \in Seq(Names)
    /\ \A a \in Names, b \in Names, c \in Names : <<a, b, c>> \in Seq(Names)
OBVIOUS

LEMMA KernelIs ==
    ASSUME NEW kernel, NEW srv, NEW uav, NEW src, NEW out, NEW s, s = Kernel(kernel, srv, uav, src, out)
    PROVE  /\ Len(s) = 2
           /\ s[1].op = "dispatch" /\ s[1].kernel = kernel /\ s[1].srv = srv
           /\ s[2] = UavBarrier(out) /\ s[2].op = "uavBarrier"
BY DEF Kernel, Dispatch, UavBarrier

\* A kernel that is neither the LayerNorm nor the attention.
LEMMA KernelPlain ==
    ASSUME NEW kernel \in Kernels \ {"ln", "attn"}, NEW srv \in 0 .. 22, NEW uav \in 2 .. 22,
           NEW src \in Seq(Names)
    PROVE  /\ Plain(Kernel(kernel, srv, uav, src, Window[uav + 1]), 2)
           /\ Writes(Kernel(kernel, srv, uav, src, Window[uav + 1]), 1, Window[uav + 1])
<1> PICK out : out = Window[uav + 1]
    OBVIOUS
<1> PICK s : s = Kernel(kernel, srv, uav, src, out)
    OBVIOUS
<1>1. out \in Names /\ srv \in Slots /\ uav \in Slots
    BY NamesAre, WindowIs
<1>2. Fences(Dispatch(kernel, srv, uav, src), UavBarrier(out))
    BY DEF Fences, Dispatch, UavRegister, Kernels
<1>3. Good(s, 2)
    BY <1>1, <1>2, KernelGood
<1>4. /\ Len(s) = 2 /\ s[1].op = "dispatch" /\ s[1].kernel = kernel /\ s[2].op = "uavBarrier"
      /\ s[2] = UavBarrier(out)
    BY KernelIs
<1>5. \A i \in 1 .. Len(s) : i = 1 \/ i = 2
    BY <1>4, OneTwo, Zenon
<1>6. NoCopy(s) /\ NoAttention(s)
    BY <1>4, <1>5 DEF NoCopy, NoAttention
<1>7. Writes(s, 1, out)
    BY <1>4 DEF Writes
<1> QED
    BY <1>3, <1>6, <1>7 DEF Plain

LEMMA NormPlain ==
    ASSUME NEW srv \in {10, 13}, NEW uav \in 2 .. 22,
           NEW src \in Seq(Names),
           src = <<Window[srv + 1], Window[srv + 2], Window[srv + 3]>>
    PROVE  Plain(Kernel("ln", srv, uav, src, Window[uav + 1]), 2)
<1> PICK out : out = Window[uav + 1]
    OBVIOUS
<1> PICK s : s = Kernel("ln", srv, uav, src, out)
    OBVIOUS
<1>1. out \in Names /\ srv \in Slots /\ uav \in Slots /\ "ln" \in Kernels
    BY NamesAre, WindowIs DEF Kernels
<1>2. Fences(Dispatch("ln", srv, uav, src), UavBarrier(out))
    <2>1. \A i \in 0 .. 2 : src[i + 1] = Window[srv + i + 1]
        OBVIOUS
    <2> QED
        BY <2>1 DEF Fences, Dispatch, UavRegister
<1>3. Good(s, 2)
    BY <1>1, <1>2, KernelGood
<1>4. /\ Len(s) = 2 /\ s[1].op = "dispatch" /\ s[1].kernel = "ln" /\ s[2].op = "uavBarrier"
    BY KernelIs
<1>5. \A i \in 1 .. Len(s) : i = 1 \/ i = 2
    BY <1>4, OneTwo, Zenon
<1>6. NoCopy(s) /\ NoAttention(s)
    BY <1>4, <1>5 DEF NoCopy, NoAttention
<1> QED
    BY <1>3, <1>6 DEF Plain

LEMMA AttentionKernel ==
    ASSUME NEW src \in Seq(Names)
    PROVE  Good(Kernel("attn", 0, UAV, src, "Out"), 2) /\ NoCopy(Kernel("attn", 0, UAV, src, "Out"))
<1> PICK s : s = Kernel("attn", 0, UAV, src, "Out")
    OBVIOUS
<1>1. "Out" \in Names /\ 0 \in Slots /\ UAV \in Slots /\ "attn" \in Kernels
    BY NamesAre, WindowIs DEF Kernels, UAV
<1>2. Fences(Dispatch("attn", 0, UAV, src), UavBarrier("Out"))
    BY WindowIs DEF Fences, Dispatch, UavRegister, UAV
<1>3. Good(s, 2)
    BY <1>1, <1>2, KernelGood
<1>4. /\ Len(s) = 2 /\ s[1].op = "dispatch" /\ s[2].op = "uavBarrier"
    BY KernelIs
<1>5. \A i \in 1 .. Len(s) : i = 1 \/ i = 2
    BY <1>4, OneTwo, Zenon
<1> QED
    BY <1>3, <1>4, <1>5 DEF NoCopy

LEMMA NormOpsPlain == Plain(NormOps, 6)
<1>0. "X" \in Names /\ "gamma1" \in Names /\ "beta1" \in Names
    BY NamesAre
<1> PICK src \in Seq(Names) : src = <<"X", "gamma1", "beta1">>
    BY <1>0, TuplesOfNames, Zenon
<1>1. src = <<Window[10 + 1], Window[10 + 2], Window[10 + 3]>>
    BY WindowIs
<1>2. /\ Plain(Kernel("ln", LN1, UAV + 1, src, "Q"), 2)
      /\ Plain(Kernel("ln", LN1, UAV + 4, src, "Out"), 2)
      /\ Plain(Kernel("ln", LN1, UAV + 5, src, "H"), 2)
    <2>1. \A uav \in 2 .. 22 : Plain(Kernel("ln", 10, uav, src, Window[uav + 1]), 2)
        BY <1>1, NormPlain
    <2>2. LN1 = 10 /\ UAV + 1 = 17 /\ UAV + 4 = 20 /\ UAV + 5 = 21
        BY DEF LN1, UAV
    <2>3. "Q" = Window[17 + 1] /\ "Out" = Window[20 + 1] /\ "H" = Window[21 + 1]
        BY WindowIs
    <2>4. 17 \in 2 .. 22 /\ 20 \in 2 .. 22 /\ 21 \in 2 .. 22
        OBVIOUS
    <2> QED
        BY <2>1, <2>2, <2>3, <2>4
<1>3. Plain(Kernel("ln", LN1, UAV + 1, src, "Q") \o Kernel("ln", LN1, UAV + 4, src, "Out"), 4)
    <2>1. 2 \in Nat /\ 2 + 2 = 4
        OBVIOUS
    <2> QED
        BY <1>2, <2>1, ConcatPlain, Zenon
<1>4. Plain(NormOps, 4 + 2)
    <2>1. 2 \in Nat /\ 4 \in Nat
        OBVIOUS
    <2>2. NormOps = (Kernel("ln", LN1, UAV + 1, src, "Q") \o Kernel("ln", LN1, UAV + 4, src, "Out"))
                      \o Kernel("ln", LN1, UAV + 5, src, "H")
        BY DEF NormOps
    <2> QED
        BY <1>2, <1>3, <2>1, <2>2, ConcatPlain, Zenon
<1> QED
    BY <1>4

LEMMA WritesLeft ==
    ASSUME NEW s, NEW t, NEW m \in Nat, NEW n \in Nat, Good(s, m), Good(t, n),
           NEW k \in 1 .. m, NEW name, Writes(s, k, name)
    PROVE  Writes(s \o t, k, name)
<1> PICK r : r = s \o t
    OBVIOUS
<1>1. /\ Len(r) = m + n /\ Len(s) = m /\ \A i \in 1 .. m : r[i] = s[i]
    BY ConcatIs
<1>2. k < m /\ s[k].op = "dispatch" /\ s[k + 1] = UavBarrier(name)
    BY <1>1 DEF Writes
<1>3. k + 1 \in 1 .. m /\ k < m + n
    BY <1>2
<1>4. r[k] = s[k] /\ r[k + 1] = s[k + 1]
    BY <1>1, <1>3
<1> QED
    BY <1>1, <1>2, <1>3, <1>4 DEF Writes

LEMMA WritesRight ==
    ASSUME NEW s, NEW t, NEW m \in Nat, NEW n \in Nat, Good(s, m), Good(t, n),
           NEW k \in 1 .. n, NEW name, Writes(t, k, name)
    PROVE  Writes(s \o t, m + k, name)
<1> PICK r : r = s \o t
    OBVIOUS
<1>1. /\ Len(r) = m + n /\ Len(t) = n /\ \A i \in 1 .. n : r[m + i] = t[i]
    BY ConcatIs
<1>2. k < n /\ t[k].op = "dispatch" /\ t[k + 1] = UavBarrier(name)
    BY <1>1 DEF Writes
<1>3. k + 1 \in 1 .. n /\ m + k < m + n /\ m + (k + 1) = (m + k) + 1
    BY <1>2
<1>4. r[m + k] = t[k] /\ r[m + (k + 1)] = t[k + 1]
    BY <1>1, <1>3
<1> QED
    BY <1>1, <1>2, <1>3, <1>4 DEF Writes

LEMMA CopiesLeft ==
    ASSUME NEW s, NEW t, NEW m \in Nat, NEW n \in Nat, Good(s, m), Good(t, n),
           NEW k \in 1 .. m, NEW c, NEW f, Copies(s, k, c, f)
    PROVE  Copies(s \o t, k, c, f)
<1>1. (s \o t)[k] = s[k]
    BY ConcatIs
<1> QED
    BY <1>1 DEF Copies

LEMMA CopiesRight ==
    ASSUME NEW s, NEW t, NEW m \in Nat, NEW n \in Nat, Good(s, m), Good(t, n),
           NEW k \in 1 .. n, NEW c, NEW f, Copies(t, k, c, f)
    PROVE  Copies(s \o t, m + k, c, f)
<1>1. (s \o t)[m + k] = t[k]
    BY ConcatIs
<1> QED
    BY <1>1 DEF Copies

\* The kernels over the common two views.
LEMMA CommonKernels ==
    ASSUME NEW kernel \in {"mm", "add", "gelu"}, NEW src \in Seq(Names)
    PROVE  /\ Plain(Kernel(kernel, 0, UAV, src, "X"), 2)
           /\ Plain(Kernel(kernel, 0, UAV + 1, src, "Q"), 2)
           /\ Plain(Kernel(kernel, 0, UAV + 2, src, "K"), 2)
           /\ Plain(Kernel(kernel, 0, UAV + 3, src, "V"), 2)
           /\ Plain(Kernel(kernel, 0, UAV + 4, src, "Out"), 2)
           /\ Plain(Kernel(kernel, 0, UAV + 5, src, "H"), 2)
           /\ Writes(Kernel(kernel, 0, UAV + 2, src, "K"), 1, "K")
           /\ Writes(Kernel(kernel, 0, UAV + 3, src, "V"), 1, "V")
<1>1. kernel \in Kernels \ {"ln", "attn"} /\ 0 \in 0 .. 22
    BY DEF Kernels
<1>2. \A uav \in 2 .. 22 :
        /\ Plain(Kernel(kernel, 0, uav, src, Window[uav + 1]), 2)
        /\ Writes(Kernel(kernel, 0, uav, src, Window[uav + 1]), 1, Window[uav + 1])
    BY <1>1, KernelPlain
<1>3. /\ UAV = 16 /\ UAV + 1 = 17 /\ UAV + 2 = 18 /\ UAV + 3 = 19 /\ UAV + 4 = 20 /\ UAV + 5 = 21
      /\ 16 + 1 = 17 /\ 17 + 1 = 18 /\ 18 + 1 = 19 /\ 19 + 1 = 20 /\ 20 + 1 = 21 /\ 21 + 1 = 22
      /\ 16 \in 2 .. 22 /\ 17 \in 2 .. 22 /\ 18 \in 2 .. 22 /\ 19 \in 2 .. 22 /\ 20 \in 2 .. 22
      /\ 21 \in 2 .. 22
    BY DEF UAV
<1>4. /\ Window[17] = "X" /\ Window[18] = "Q" /\ Window[19] = "K" /\ Window[20] = "V"
      /\ Window[21] = "Out" /\ Window[22] = "H"
    BY WindowIs
<1>5. Plain(Kernel(kernel, 0, UAV, src, "X"), 2) /\ Plain(Kernel(kernel, 0, UAV + 1, src, "Q"), 2)
    BY <1>2, <1>3, <1>4, Zenon
<1>6. Plain(Kernel(kernel, 0, UAV + 2, src, "K"), 2) /\ Plain(Kernel(kernel, 0, UAV + 3, src, "V"), 2)
    BY <1>2, <1>3, <1>4, Zenon
<1>7. Plain(Kernel(kernel, 0, UAV + 4, src, "Out"), 2) /\ Plain(Kernel(kernel, 0, UAV + 5, src, "H"), 2)
    BY <1>2, <1>3, <1>4, Zenon
<1>8. /\ Writes(Kernel(kernel, 0, UAV + 2, src, "K"), 1, "K")
      /\ Writes(Kernel(kernel, 0, UAV + 3, src, "V"), 1, "V")
    BY <1>2, <1>3, <1>4, Zenon
<1> QED
    BY <1>5, <1>6, <1>7, <1>8

LEMMA ProjectionOpsPlain ==
    Plain(ProjectionOps, 10) /\ Writes(ProjectionOps, 5, "K") /\ Writes(ProjectionOps, 8, "V")
<1>1. PICK v, c2, c3, c1, kq, kk, kv :
        /\ v = <<View(0, "H")>> /\ c2 = <<CopyView(1, 2)>> /\ c3 = <<CopyView(1, 3)>>
        /\ c1 = <<CopyView(1, 1)>>
        /\ kq = Kernel("mm", 0, UAV + 1, <<"H", "Wq">>, "Q")
        /\ kk = Kernel("mm", 0, UAV + 2, <<"H", "Wk">>, "K")
        /\ kv = Kernel("mm", 0, UAV + 3, <<"H", "Wv">>, "V")
    OBVIOUS
<1>2. ProjectionOps = v \o kq \o c2 \o kk \o c3 \o kv \o c1
    BY <1>1 DEF ProjectionOps
<1>3. Plain(v, 1) /\ Plain(c2, 1) /\ Plain(c3, 1) /\ Plain(c1, 1)
    <2>1. 0 \in {0, 1} /\ "H" \in Names /\ 1 \in 0 .. 22 /\ 2 \in 0 .. 22 /\ 3 \in 0 .. 22
        BY NamesAre
    <2> QED
        BY <1>1, <2>1, ViewPlain, CopyViewPlain, Zenon
<1>4. Plain(kq, 2) /\ Plain(kk, 2) /\ Writes(kk, 1, "K") /\ Plain(kv, 2) /\ Writes(kv, 1, "V")
    <2>1. "mm" \in {"mm", "add", "gelu"} /\ "H" \in Names /\ "Wq" \in Names /\ "Wk" \in Names /\ "Wv" \in Names
        BY NamesAre
    <2>2. <<"H", "Wq">> \in Seq(Names) /\ <<"H", "Wk">> \in Seq(Names) /\ <<"H", "Wv">> \in Seq(Names)
        BY <2>1, TuplesOfNames, Zenon
    <2>3. Plain(kq, 2)
        BY <1>1, <2>1, <2>2, CommonKernels, Zenon
    <2>4. Plain(kk, 2) /\ Writes(kk, 1, "K")
        BY <1>1, <2>1, <2>2, CommonKernels, Zenon
    <2>5. Plain(kv, 2) /\ Writes(kv, 1, "V")
        BY <1>1, <2>1, <2>2, CommonKernels, Zenon
    <2> QED
        BY <2>3, <2>4, <2>5
<1>5. /\ 1 \in Nat /\ 2 \in Nat /\ 3 \in Nat /\ 4 \in Nat /\ 6 \in Nat /\ 7 \in Nat /\ 9 \in Nat
      /\ 1 + 2 = 3 /\ 3 + 1 = 4 /\ 4 + 2 = 6 /\ 6 + 1 = 7 /\ 7 + 2 = 9 /\ 9 + 1 = 10
      /\ 4 + 1 = 5 /\ 7 + 1 = 8 /\ 1 \in 1 .. 2 /\ 5 \in 1 .. 6 /\ 5 \in 1 .. 7 /\ 5 \in 1 .. 9 /\ 8 \in 1 .. 9
    OBVIOUS
<1>6. PICK a : a = v \o kq \o c2 \o kk
    OBVIOUS
<1>7. Plain(a, 6) /\ Writes(a, 5, "K")
    <2>1. Plain(v \o kq, 3)
        BY <1>3, <1>4, <1>5, ConcatPlain, Zenon
    <2>2. Plain(v \o kq \o c2, 4)
        BY <2>1, <1>3, <1>5, ConcatPlain, Zenon
    <2>3. Plain(v \o kq \o c2 \o kk, 6)
        BY <2>2, <1>4, <1>5, ConcatPlain, Zenon
    <2>4. Good(v \o kq \o c2, 4) /\ Good(kk, 2)
        BY <2>2, <1>4 DEF Plain
    <2>5. Writes(v \o kq \o c2 \o kk, 4 + 1, "K")
        BY <2>4, <1>4, <1>5, WritesRight, Zenon
    <2> QED
        BY <1>5, <1>6, <2>3, <2>5
<1>8. PICK b : b = a \o c3 \o kv
    OBVIOUS
<1>9. Plain(b, 9) /\ Writes(b, 5, "K") /\ Writes(b, 8, "V")
    <2>1. Plain(a \o c3, 7)
        BY <1>3, <1>5, <1>7, ConcatPlain, Zenon
    <2>2. Plain(a \o c3 \o kv, 9)
        BY <2>1, <1>4, <1>5, ConcatPlain, Zenon
    <2>3. Good(a, 6) /\ Good(c3, 1) /\ Good(a \o c3, 7) /\ Good(kv, 2)
        BY <2>1, <1>3, <1>4, <1>7 DEF Plain
    <2>4. Writes(a \o c3, 5, "K")
        BY <2>3, <1>5, <1>7, WritesLeft, Zenon
    <2>5. Writes(a \o c3 \o kv, 5, "K")
        BY <2>3, <2>4, <1>5, WritesLeft, Zenon
    <2>6. Writes(a \o c3 \o kv, 7 + 1, "V")
        BY <2>3, <1>4, <1>5, WritesRight, Zenon
    <2> QED
        BY <1>5, <1>8, <2>2, <2>5, <2>6
<1>10. Plain(b \o c1, 10)
    BY <1>3, <1>5, <1>9, ConcatPlain, Zenon
<1>11. Good(b, 9) /\ Good(c1, 1)
    BY <1>3, <1>9 DEF Plain
<1>12. Writes(b \o c1, 5, "K") /\ Writes(b \o c1, 8, "V")
    BY <1>5, <1>9, <1>11, WritesLeft, Zenon
<1>13. ProjectionOps = b \o c1
    BY <1>2, <1>6, <1>8
<1> QED
    BY <1>10, <1>12, <1>13

LEMMA ConcatNoCopy ==
    ASSUME NEW s, NEW t, NEW m \in Nat, NEW n \in Nat, Good(s, m), Good(t, n), NoCopy(s), NoCopy(t)
    PROVE  NoCopy(s \o t)
<1> PICK r : r = s \o t
    OBVIOUS
<1>1. /\ Len(r) = m + n /\ Len(s) = m /\ Len(t) = n
      /\ \A i \in 1 .. m : r[i] = s[i]
      /\ \A i \in 1 .. n : r[m + i] = t[i]
      /\ \A i \in 1 .. m + n : i \in 1 .. m \/ \E k \in 1 .. n : i = m + k
    BY ConcatIs
<1> QED
    BY <1>1 DEF NoCopy

LEMMA ConcatNoAttention ==
    ASSUME NEW s, NEW t, NEW m \in Nat, NEW n \in Nat, Good(s, m), Good(t, n),
           NoAttention(s), NoAttention(t)
    PROVE  NoAttention(s \o t)
<1> PICK r : r = s \o t
    OBVIOUS
<1>1. /\ Len(r) = m + n /\ Len(s) = m /\ Len(t) = n
      /\ \A i \in 1 .. m : r[i] = s[i]
      /\ \A i \in 1 .. n : r[m + i] = t[i]
      /\ \A i \in 1 .. m + n : i \in 1 .. m \/ \E k \in 1 .. n : i = m + k
    BY ConcatIs
<1> QED
    BY <1>1 DEF NoAttention

LEMMA TwoViewsPlain ==
    ASSUME NEW name \in Names, NEW from \in 0 .. 22
    PROVE  Plain(<<View(0, name), CopyView(1, from)>>, 2)
<1> PICK s : s = <<View(0, name), CopyView(1, from)>>
    OBVIOUS
<1> PICK a, b : a = <<View(0, name)>> /\ b = <<CopyView(1, from)>>
    OBVIOUS
<1>1. Plain(a, 1) /\ Plain(b, 1)
    BY ViewPlain, CopyViewPlain
<1>2. s = a \o b
    OBVIOUS
<1>3. Plain(a \o b, 1 + 1)
    <2>1. 1 \in Nat
        OBVIOUS
    <2> QED
        BY <1>1, <2>1, ConcatPlain, Zenon
<1>4. 1 + 1 = 2
    OBVIOUS
<1> QED
    BY <1>2, <1>3, <1>4, Zenon

LEMMA AttentionOpsGood == Good(AttentionOps, 10) /\ NoCopy(AttentionOps)
<1>1. PICK v, ka, vv, km, kp :
        /\ v = <<View(0, "Q")>> /\ ka = Kernel("attn", 0, UAV, <<"Q">>, "Out")
        /\ vv = <<View(0, "Out"), CopyView(1, 4)>>
        /\ km = Kernel("mm", 0, UAV + 1, <<"Out", "Wo">>, "Q")
        /\ kp = Kernel("add", 0, UAV, <<"Q">>, "X")
    OBVIOUS
<1>2. AttentionOps = v \o ka \o vv \o km \o v \o kp
    BY <1>1 DEF AttentionOps
<1>3. "Q" \in Names /\ "Out" \in Names /\ "Wo" \in Names /\ 4 \in 0 .. 22 /\ 0 \in {0, 1}
    BY NamesAre
<1>4. <<"Q">> \in Seq(Names) /\ <<"Out", "Wo">> \in Seq(Names)
    BY <1>3, TuplesOfNames, Zenon
<1>5. Plain(v, 1) /\ Plain(vv, 2)
    BY <1>1, <1>3, ViewPlain, TwoViewsPlain, Zenon
<1>6. Plain(km, 2) /\ Plain(kp, 2)
    <2>1. "mm" \in {"mm", "add", "gelu"} /\ "add" \in {"mm", "add", "gelu"}
        OBVIOUS
    <2> QED
        BY <1>1, <1>4, <2>1, CommonKernels, Zenon
<1>7. /\ 1 \in Nat /\ 2 \in Nat /\ 3 \in Nat /\ 5 \in Nat /\ 7 \in Nat /\ 8 \in Nat
      /\ 1 + 2 = 3 /\ 3 + 2 = 5 /\ 5 + 2 = 7 /\ 7 + 1 = 8 /\ 8 + 2 = 10
    OBVIOUS
<1>8. /\ Good(v, 1) /\ NoCopy(v) /\ Good(ka, 2) /\ NoCopy(ka) /\ Good(vv, 2) /\ NoCopy(vv)
      /\ Good(km, 2) /\ NoCopy(km) /\ Good(kp, 2) /\ NoCopy(kp)
    BY <1>1, <1>4, <1>5, <1>6, AttentionKernel, Zenon DEF Plain
<1>9. Good(v \o ka, 3) /\ NoCopy(v \o ka)
    BY <1>7, <1>8, ConcatGood, ConcatNoCopy, Zenon
<1>10. Good(v \o ka \o vv, 5) /\ NoCopy(v \o ka \o vv)
    BY <1>7, <1>8, <1>9, ConcatGood, ConcatNoCopy, Zenon
<1>11. Good(v \o ka \o vv \o km, 7) /\ NoCopy(v \o ka \o vv \o km)
    BY <1>7, <1>8, <1>10, ConcatGood, ConcatNoCopy, Zenon
<1>12. Good(v \o ka \o vv \o km \o v, 8) /\ NoCopy(v \o ka \o vv \o km \o v)
    BY <1>7, <1>8, <1>11, ConcatGood, ConcatNoCopy, Zenon
<1>13. Good(v \o ka \o vv \o km \o v \o kp, 10) /\ NoCopy(v \o ka \o vv \o km \o v \o kp)
    BY <1>7, <1>8, <1>12, ConcatGood, ConcatNoCopy, Zenon
<1> QED
    BY <1>2, <1>13

LEMMA FeedForwardOpsPlain == Plain(FeedForwardOps, 19)
<1>1. PICK r, kn, vw, k1, vh, kg, c6, k2, vo, kp, ve :
        /\ r = RestoreViews /\ kn = Kernel("ln", LN2, UAV + 5, <<"X", "gamma2", "beta2">>, "H")
        /\ vw = <<View(0, "H"), CopyView(1, 5)>>
        /\ k1 = Kernel("mm", 0, UAV + 5, <<"H", "W1">>, "H")
        /\ vh = <<View(0, "H")>> /\ kg = Kernel("gelu", 0, UAV + 5, <<"H">>, "H")
        /\ c6 = <<CopyView(1, 6)>> /\ k2 = Kernel("mm", 0, UAV + 4, <<"H", "W2">>, "Out")
        /\ vo = <<View(0, "Out")>> /\ kp = Kernel("add", 0, UAV, <<"Out">>, "X")
        /\ ve = <<View(0, "X"), CopyView(1, 1)>>
    OBVIOUS
<1>2. FeedForwardOps = r \o kn \o vw \o k1 \o vh \o kg \o c6 \o k2 \o vo \o kp \o ve
    BY <1>1 DEF FeedForwardOps
<1>3. /\ "X" \in Names /\ "H" \in Names /\ "Out" \in Names /\ "W1" \in Names /\ "W2" \in Names
      /\ "gamma2" \in Names /\ "beta2" \in Names /\ 1 \in 0 .. 22
      /\ 5 \in 0 .. 22 /\ 6 \in 0 .. 22 /\ 0 \in {0, 1}
    BY NamesAre
<1>4. /\ <<"X", "gamma2", "beta2">> \in Seq(Names) /\ <<"H", "W1">> \in Seq(Names)
      /\ <<"H">> \in Seq(Names) /\ <<"H", "W2">> \in Seq(Names) /\ <<"Out">> \in Seq(Names)
    BY <1>3, TuplesOfNames, Zenon
<1>5. Plain(r, 2) /\ Plain(vw, 2) /\ Plain(vh, 1) /\ Plain(c6, 1) /\ Plain(vo, 1) /\ Plain(ve, 2)
    BY <1>1, <1>3, RestoreViewsPlain, ViewPlain, CopyViewPlain, TwoViewsPlain, Zenon
<1>6. Plain(k1, 2) /\ Plain(kg, 2) /\ Plain(k2, 2) /\ Plain(kp, 2)
    <2>1. "mm" \in {"mm", "add", "gelu"} /\ "add" \in {"mm", "add", "gelu"} /\ "gelu" \in {"mm", "add", "gelu"}
        OBVIOUS
    <2> QED
        BY <1>1, <1>4, <2>1, CommonKernels, Zenon
<1>7. Plain(kn, 2)
    <2>1. PICK src \in Seq(Names) : src = <<"X", "gamma2", "beta2">>
        BY <1>4
    <2>2. src = <<Window[13 + 1], Window[13 + 2], Window[13 + 3]>>
        BY <2>1, WindowIs
    <2>3. Plain(Kernel("ln", 13, 21, src, Window[21 + 1]), 2)
        <3>1. 13 \in {10, 13} /\ 21 \in 2 .. 22
            OBVIOUS
        <3> QED
            BY <2>1, <2>2, <3>1, NormPlain, Zenon
    <2>4. LN2 = 13 /\ UAV + 5 = 21 /\ Window[21 + 1] = "H"
        BY WindowIs DEF LN2, UAV
    <2> QED
        BY <1>1, <2>1, <2>3, <2>4, Zenon
<1>8. /\ 2 \in Nat /\ 4 \in Nat /\ 6 \in Nat /\ 8 \in Nat /\ 9 \in Nat /\ 11 \in Nat /\ 12 \in Nat
      /\ 14 \in Nat /\ 15 \in Nat /\ 17 \in Nat /\ 1 \in Nat
      /\ 2 + 2 = 4 /\ 4 + 2 = 6 /\ 6 + 2 = 8 /\ 8 + 1 = 9 /\ 9 + 2 = 11 /\ 11 + 1 = 12
      /\ 12 + 2 = 14 /\ 14 + 1 = 15 /\ 15 + 2 = 17 /\ 17 + 2 = 19
    OBVIOUS
<1>9. PICK a : a = r \o kn \o vw \o k1 \o vh
    OBVIOUS
<1>10. Plain(a, 9)
    <2>1. Plain(r \o kn, 4)
        BY <1>5, <1>7, <1>8, ConcatPlain, Zenon
    <2>2. Plain(r \o kn \o vw, 6)
        BY <2>1, <1>5, <1>8, ConcatPlain, Zenon
    <2>3. Plain(r \o kn \o vw \o k1, 8)
        BY <2>2, <1>6, <1>8, ConcatPlain, Zenon
    <2>4. Plain(r \o kn \o vw \o k1 \o vh, 9)
        BY <2>3, <1>5, <1>8, ConcatPlain, Zenon
    <2> QED
        BY <1>9, <2>4
<1>11. PICK b : b = a \o kg \o c6 \o k2
    OBVIOUS
<1>12. Plain(b, 14)
    <2>1. Plain(a \o kg, 11)
        BY <1>6, <1>8, <1>10, ConcatPlain, Zenon
    <2>2. Plain(a \o kg \o c6, 12)
        BY <2>1, <1>5, <1>8, ConcatPlain, Zenon
    <2>3. Plain(a \o kg \o c6 \o k2, 14)
        BY <2>2, <1>6, <1>8, ConcatPlain, Zenon
    <2> QED
        BY <1>11, <2>3
<1>13. Plain(b \o vo, 15)
    BY <1>5, <1>8, <1>12, ConcatPlain, Zenon
<1>14. Plain(b \o vo \o kp, 17)
    BY <1>6, <1>8, <1>13, ConcatPlain, Zenon
<1>15. Plain(b \o vo \o kp \o ve, 19)
    BY <1>5, <1>8, <1>14, ConcatPlain, Zenon
<1>16. FeedForwardOps = b \o vo \o kp \o ve
    BY <1>2, <1>9, <1>11
<1> QED
    BY <1>15, <1>16

LEMMA StoreRowIs ==
    ASSUME NEW c \in Caches, NEW f \in {"K", "V"}, NEW s, s = StoreRow(c, f)
    PROVE  Good(s, 5) /\ NoAttention(s) /\ Copies(s, 3, c, f)
           /\ \A i \in 1 .. 5 : s[i].op = "copyRow" => i = 3
<1>1. Good(s, 5)
    BY StoreRowGood
<1>2. /\ s[1].op = "transition" /\ s[2].op = "transition" /\ s[3].op = "copyRow"
      /\ s[4].op = "transition" /\ s[5].op = "transition" /\ s[3] = CopyRow(c, f)
    BY DEF StoreRow, Transition, CopyRow
<1>3. Len(s) = 5
    BY <1>1 DEF Good
<1>4. \A i \in 1 .. 5 : i = 1 \/ i = 2 \/ i = 3 \/ i = 4 \/ i = 5
    OBVIOUS
<1>5. NoAttention(s)
    BY <1>2, <1>3, <1>4 DEF NoAttention
<1> QED
    BY <1>1, <1>2, <1>4, <1>5 DEF Copies

CopiesIn(s, places) == \A i \in 1 .. Len(s) : s[i].op = "copyRow" => i \in places
Shifted(m, later, places) == \A i \in later : m + i \in places
AttendsFrom(s, first) ==
    \A i \in 1 .. Len(s) : s[i].op = "dispatch" /\ s[i].kernel = "attn" => i > first

LEMMA CopiesInJoin ==
    ASSUME NEW s, NEW t, NEW m \in Nat, NEW n \in Nat, Good(s, m), Good(t, n),
           NEW places, NEW later, CopiesIn(s, places), CopiesIn(t, later), Shifted(m, later, places)
    PROVE  CopiesIn(s \o t, places)
<1> PICK r : r = s \o t
    OBVIOUS
<1>1. /\ Len(r) = m + n /\ Len(s) = m /\ Len(t) = n
      /\ \A i \in 1 .. m : r[i] = s[i]
      /\ \A i \in 1 .. n : r[m + i] = t[i]
      /\ \A i \in 1 .. m + n : i \in 1 .. m \/ \E k \in 1 .. n : i = m + k
    BY ConcatIs
<1> SUFFICES ASSUME NEW i \in 1 .. m + n, r[i].op = "copyRow" PROVE i \in places
    BY <1>1 DEF CopiesIn
<1>2. CASE i \in 1 .. m
    BY <1>1, <1>2 DEF CopiesIn
<1>3. ASSUME NEW k \in 1 .. n, i = m + k PROVE i \in places
    BY <1>1, <1>3 DEF CopiesIn, Shifted
<1> QED
    BY <1>1, <1>2, <1>3

LEMMA AttendsJoin ==
    ASSUME NEW s, NEW t, NEW m \in Nat, NEW n \in Nat, Good(s, m), Good(t, n),
           NEW first \in Nat, AttendsFrom(s, first), NoAttention(t) \/ m >= first
    PROVE  AttendsFrom(s \o t, first)
<1> PICK r : r = s \o t
    OBVIOUS
<1>1. /\ Len(r) = m + n /\ Len(s) = m /\ Len(t) = n
      /\ \A i \in 1 .. m : r[i] = s[i]
      /\ \A i \in 1 .. n : r[m + i] = t[i]
      /\ \A i \in 1 .. m + n : i \in 1 .. m \/ \E k \in 1 .. n : i = m + k
    BY ConcatIs
<1> SUFFICES ASSUME NEW i \in 1 .. m + n, r[i].op = "dispatch", r[i].kernel = "attn" PROVE i > first
    BY <1>1 DEF AttendsFrom
<1>2. CASE i \in 1 .. m
    BY <1>1, <1>2 DEF AttendsFrom
<1>3. ASSUME NEW k \in 1 .. n, i = m + k PROVE i > first
    <2>1. t[k].op = "dispatch" /\ t[k].kernel = "attn"
        BY <1>1, <1>3
    <2>2. ~NoAttention(t)
        BY <1>1, <2>1 DEF NoAttention
    <2> QED
        BY <1>3, <2>2
<1> QED
    BY <1>1, <1>2, <1>3

\* The operations of a layer: 55, well formed; the rows are copied at 19 and
\* 24, behind the kernels that write them, and the attention comes later.
LEMMA LayerOpsIs ==
    /\ Good(LayerOps, 55)
    /\ Writes(LayerOps, 11, "K") /\ Writes(LayerOps, 14, "V")
    /\ Copies(LayerOps, 19, "Kcache", "K")
    /\ Copies(LayerOps, 24, "Vcache", "V")
    /\ CopiesIn(LayerOps, {19, 24}) /\ AttendsFrom(LayerOps, 26)
<1>1. PICK n, p, k, v, a, f :
        /\ n = NormOps /\ p = ProjectionOps /\ k = StoreRow("Kcache", "K")
        /\ v = StoreRow("Vcache", "V") /\ a = AttentionOps /\ f = FeedForwardOps
    OBVIOUS
<1>2. LayerOps = n \o p \o k \o v \o a \o f
    BY <1>1 DEF LayerOps
<1>3. /\ 6 \in Nat /\ 10 \in Nat /\ 16 \in Nat /\ 5 \in Nat /\ 21 \in Nat /\ 26 \in Nat /\ 36 \in Nat
      /\ 19 \in Nat /\ 6 + 10 = 16 /\ 16 + 5 = 21 /\ 21 + 5 = 26 /\ 26 + 10 = 36 /\ 36 + 19 = 55
      /\ 6 + 5 = 11 /\ 6 + 8 = 14 /\ 16 + 3 = 19 /\ 21 + 3 = 24
      /\ 5 \in 1 .. 10 /\ 8 \in 1 .. 10 /\ 3 \in 1 .. 5
      /\ 11 \in 1 .. 16 /\ 14 \in 1 .. 16 /\ 11 \in 1 .. 21 /\ 14 \in 1 .. 21 /\ 19 \in 1 .. 21
      /\ 11 \in 1 .. 26 /\ 14 \in 1 .. 26 /\ 19 \in 1 .. 26 /\ 24 \in 1 .. 26
      /\ 11 \in 1 .. 36 /\ 14 \in 1 .. 36 /\ 19 \in 1 .. 36 /\ 24 \in 1 .. 36
    OBVIOUS
<1>4. Plain(n, 6) /\ Plain(p, 10) /\ Writes(p, 5, "K") /\ Writes(p, 8, "V") /\ Plain(f, 19)
      /\ Good(a, 10) /\ NoCopy(a)
    BY <1>1, NormOpsPlain, ProjectionOpsPlain, AttentionOpsGood, FeedForwardOpsPlain
<1>5. /\ Good(k, 5) /\ NoAttention(k) /\ Copies(k, 3, "Kcache", "K")
      /\ \A i \in 1 .. 5 : k[i].op = "copyRow" => i = 3
    <2>1. "Kcache" \in Caches /\ "K" \in {"K", "V"}
        BY DEF Caches
    <2> QED
        BY <1>1, <2>1, StoreRowIs, Zenon
<1>6. /\ Good(v, 5) /\ NoAttention(v) /\ Copies(v, 3, "Vcache", "V")
      /\ \A i \in 1 .. 5 : v[i].op = "copyRow" => i = 3
    <2>1. "Vcache" \in Caches /\ "V" \in {"K", "V"}
        BY DEF Caches
    <2> QED
        BY <1>1, <2>1, StoreRowIs, Zenon
<1>7. PICK A : A = n \o p
    OBVIOUS
<1>8. /\ Good(A, 16) /\ NoCopy(A) /\ NoAttention(A) /\ Len(A) = 16
      /\ Writes(A, 11, "K") /\ Writes(A, 14, "V")
    <2>1. Good(n, 6) /\ Good(p, 10)
        BY <1>4 DEF Plain
    <2>2. Plain(n \o p, 16)
        BY <1>3, <1>4, ConcatPlain, Zenon
    <2>3. Writes(n \o p, 6 + 5, "K") /\ Writes(n \o p, 6 + 8, "V")
        BY <1>3, <1>4, <2>1, WritesRight, Zenon
    <2>4. Good(n \o p, 16) /\ NoCopy(n \o p) /\ NoAttention(n \o p) /\ Len(n \o p) = 16
        BY <2>2 DEF Plain, Good
    <2> QED
        BY <1>3, <1>7, <2>3, <2>4
<1>9. PICK B : B = A \o k
    OBVIOUS
<1>10. /\ Good(B, 21) /\ NoAttention(B) /\ Writes(B, 11, "K") /\ Writes(B, 14, "V")
       /\ Copies(B, 19, "Kcache", "K") /\ CopiesIn(B, {19, 24})
    <2>1. Good(A, 16) /\ Good(k, 5) /\ 16 \in Nat /\ 5 \in Nat /\ 21 \in Nat /\ 16 + 5 = 21
        BY <1>5, <1>8
    <2>2. Good(B, 21)
        <3>1. Good(A \o k, 16 + 5)
            BY <2>1, ConcatGood, Zenon
        <3> QED
            BY <1>9, <2>1, <3>1
    <2>3. NoAttention(B)
        BY <1>5, <1>8, <1>9, <2>1, ConcatNoAttention, Zenon
    <2>4. Writes(B, 11, "K") /\ Writes(B, 14, "V")
        BY <1>3, <1>8, <1>9, <2>1, WritesLeft, Zenon
    <2>5. Copies(B, 16 + 3, "Kcache", "K")
        BY <1>3, <1>5, <1>9, <2>1, CopiesRight, Zenon
    <2>6. CopiesIn(A, {19, 24}) /\ CopiesIn(k, {3}) /\ Shifted(16, {3}, {19, 24})
        <3>1. Len(k) = 5 /\ 3 \in 1 .. 5 /\ 16 + 3 = 19
            BY <2>1 DEF Good
        <3> QED
            BY <1>5, <1>8, <3>1 DEF CopiesIn, NoCopy, Shifted
    <2>7. CopiesIn(B, {19, 24})
        <3>1. CopiesIn(A \o k, {19, 24})
            BY <2>1, <2>6, CopiesInJoin, Zenon
        <3> QED
            BY <1>9, <3>1
    <2> QED
        BY <1>3, <1>5, <2>2, <2>3, <2>4, <2>5, <2>7
<1>11. PICK C : C = B \o v
    OBVIOUS
<1>12. /\ Good(C, 26) /\ NoAttention(C) /\ Writes(C, 11, "K") /\ Writes(C, 14, "V")
       /\ Copies(C, 19, "Kcache", "K")
       /\ Copies(C, 24, "Vcache", "V") /\ CopiesIn(C, {19, 24})
    <2>1. Good(B, 21) /\ Good(v, 5) /\ 21 \in Nat /\ 5 \in Nat /\ 26 \in Nat /\ 21 + 5 = 26
        BY <1>6, <1>10
    <2>2. Good(C, 26)
        <3>1. Good(B \o v, 21 + 5)
            BY <2>1, ConcatGood, Zenon
        <3> QED
            BY <1>11, <2>1, <3>1
    <2>3. NoAttention(C)
        BY <1>6, <1>10, <1>11, <2>1, ConcatNoAttention, Zenon
    <2>4. Writes(C, 11, "K") /\ Writes(C, 14, "V")
        BY <1>3, <1>10, <1>11, <2>1, WritesLeft, Zenon
    <2>5. Copies(C, 21 + 3, "Vcache", "V") /\ Copies(C, 19, "Kcache", "K")
        BY <1>3, <1>6, <1>10, <1>11, <2>1, CopiesLeft, CopiesRight, Zenon
    <2>6. CopiesIn(v, {3}) /\ Shifted(21, {3}, {19, 24})
        <3>1. Len(v) = 5 /\ 3 \in 1 .. 5 /\ 21 + 3 = 24
            BY <2>1 DEF Good
        <3> QED
            BY <1>6, <3>1 DEF CopiesIn, Shifted
    <2>7. CopiesIn(C, {19, 24})
        <3>1. CopiesIn(B \o v, {19, 24})
            BY <1>10, <2>1, <2>6, CopiesInJoin, Zenon
        <3> QED
            BY <1>11, <3>1
    <2> QED
        BY <1>3, <1>6, <1>10, <2>2, <2>3, <2>4, <2>5, <2>7
<1>13. PICK D : D = C \o a
    OBVIOUS
<1>14. /\ Good(D, 36) /\ Writes(D, 11, "K") /\ Writes(D, 14, "V")
       /\ Copies(D, 19, "Kcache", "K")
       /\ Copies(D, 24, "Vcache", "V")
       /\ CopiesIn(D, {19, 24}) /\ AttendsFrom(D, 26)
    <2>1. Good(C, 26) /\ Good(a, 10) /\ 26 \in Nat /\ 10 \in Nat /\ 36 \in Nat /\ 26 + 10 = 36
        BY <1>4, <1>12
    <2>2. Good(D, 36)
        <3>1. Good(C \o a, 26 + 10)
            BY <2>1, ConcatGood, Zenon
        <3> QED
            BY <1>13, <2>1, <3>1
    <2>4. Writes(D, 11, "K") /\ Writes(D, 14, "V")
        BY <1>3, <1>12, <1>13, <2>1, WritesLeft, Zenon
    <2>5. Copies(D, 24, "Vcache", "V") /\ Copies(D, 19, "Kcache", "K")
        BY <1>3, <1>12, <1>13, <2>1, CopiesLeft, Zenon
    <2>6. CopiesIn(a, {}) /\ Shifted(26, {}, {19, 24})
        BY <1>4 DEF CopiesIn, NoCopy, Shifted
    <2>7. CopiesIn(D, {19, 24})
        <3>1. CopiesIn(C \o a, {19, 24})
            BY <1>12, <2>1, <2>6, CopiesInJoin, Zenon
        <3> QED
            BY <1>13, <3>1
    <2>8. AttendsFrom(C, 26) /\ 26 >= 26
        BY <1>12 DEF AttendsFrom, NoAttention
    <2>9. AttendsFrom(D, 26)
        BY <1>13, <2>1, <2>8, AttendsJoin, Zenon
    <2> QED
        BY <1>12, <2>2, <2>4, <2>5, <2>7, <2>9
<1>15. LayerOps = D \o f
    BY <1>2, <1>7, <1>9, <1>11, <1>13
<1>16. Good(D, 36) /\ Good(f, 19) /\ 36 \in Nat /\ 19 \in Nat /\ 55 \in Nat /\ 36 + 19 = 55
    BY <1>4, <1>14 DEF Plain
<1>17. Good(LayerOps, 55)
    <2>1. Good(D \o f, 36 + 19)
        BY <1>16, ConcatGood, Zenon
    <2> QED
        BY <1>15, <1>16, <2>1
<1>18. Writes(LayerOps, 11, "K") /\ Writes(LayerOps, 14, "V")
    BY <1>3, <1>14, <1>15, <1>16, WritesLeft, Zenon
<1>19. Copies(LayerOps, 24, "Vcache", "V") /\ Copies(LayerOps, 19, "Kcache", "K")
    BY <1>3, <1>14, <1>15, <1>16, CopiesLeft, Zenon
<1>20. CopiesIn(LayerOps, {19, 24})
    <2>1. CopiesIn(f, {}) /\ Shifted(36, {}, {19, 24})
        BY <1>4 DEF Plain, CopiesIn, NoCopy, Shifted
    <2>2. CopiesIn(D \o f, {19, 24})
        BY <1>14, <1>16, <2>1, CopiesInJoin, Zenon
    <2> QED
        BY <1>15, <2>2
<1>21. AttendsFrom(LayerOps, 26)
    <2>1. NoAttention(f) /\ 26 \in Nat
        BY <1>4 DEF Plain
    <2>2. AttendsFrom(D \o f, 26)
        BY <1>14, <1>16, <2>1, AttendsJoin, Zenon
    <2> QED
        BY <1>15, <2>2
<1> QED
    BY <1>14, <1>17, <1>18, <1>19, <1>20, <1>21


-----------------------------------------------------------------------------
(* A token's list: the embedding, then the operations of each layer          *)

Entry == [layer : Layers, do : Operation]
At(l, i) == 2 + 55 * l + i
Put(l, op) == [layer |-> l, do |-> op]

LEMMA FunctionIsSeq ==
    ASSUME NEW S, NEW n \in Nat, NEW f \in [1 .. n -> S]
    PROVE  f \in Seq(S) /\ Len(f) = n
OBVIOUS

LEMMA EmbedIs ==
    /\ Len(OnLayer(0, EmbedOps)) = 2 /\ OnLayer(0, EmbedOps) \in Seq(Entry)
    /\ OnLayer(0, EmbedOps)[1] = Put(0, Dispatch("embed", 7, UAV, <<"embed">>))
    /\ OnLayer(0, EmbedOps)[2] = Put(0, UavBarrier("X"))
    /\ Fences(Dispatch("embed", 7, UAV, <<"embed">>), UavBarrier("X"))
    /\ Dispatch("embed", 7, UAV, <<"embed">>) \in Operation /\ UavBarrier("X") \in Operation
    /\ 0 \in Layers
<1>0. 0 \in Layers
    BY LayerRecordingAssumption DEF Layers
<1>1. "embed" \in Names /\ "embed" \in Kernels /\ 7 \in Slots /\ UAV \in Slots /\ "X" \in Names
    BY NamesAre, WindowIs DEF Kernels, UAV
<1>2. <<"embed">> \in Seq(Names)
    BY <1>1, TuplesOfNames, Zenon
<1> PICK src \in Seq(Names) : src = <<"embed">>
    BY <1>2
<1>3. Dispatch("embed", 7, UAV, src) \in Operation /\ UavBarrier("X") \in Operation
    BY <1>1 DEF Dispatch, UavBarrier, Operation
<1>4. Fences(Dispatch("embed", 7, UAV, src), UavBarrier("X"))
    BY WindowIs DEF Fences, Dispatch, UavBarrier, UavRegister, UAV
<1> PICK s : s = EmbedOps
    OBVIOUS
<1>5. s = <<Dispatch("embed", 7, UAV, src), UavBarrier("X")>>
    BY DEF EmbedOps, Kernel
<1>6. Len(s) = 2 /\ DOMAIN s = 1 .. 2 /\ s[1] = Dispatch("embed", 7, UAV, src) /\ s[2] = UavBarrier("X")
    BY <1>5
<1>7. /\ OnLayer(0, s) = [i \in 1 .. 2 |-> Put(0, s[i])]
    BY <1>6 DEF OnLayer, Put
<1>8. \A i \in 1 .. 2 : Put(0, s[i]) \in Entry
    BY <1>0, <1>3, <1>6 DEF Put, Entry
<1>9. OnLayer(0, s) \in Seq(Entry) /\ Len(OnLayer(0, s)) = 2
    <2>1. OnLayer(0, s) \in [1 .. 2 -> Entry] /\ 2 \in Nat
        BY <1>7, <1>8
    <2> QED
        BY <2>1, FunctionIsSeq
<1>10. OnLayer(0, s)[1] = Put(0, s[1]) /\ OnLayer(0, s)[2] = Put(0, s[2])
    BY <1>7
<1> QED
    BY <1>0, <1>3, <1>4, <1>6, <1>9, <1>10

LEMMA PlaceArithmetic ==
    ASSUME NEW n \in Nat, NEW l \in 0 .. n - 1, NEW i \in 1 .. 55, NEW k \in Nat, k = 55 * l + i
    PROVE  /\ k \in 1 .. (n * 55) /\ (k - 1) \div 55 = l /\ ((k - 1) % 55) + 1 = i
           /\ k + 2 \in 1 .. 2 + n * 55 /\ ~(k + 2 <= 2) /\ (k + 2) - 2 = k
<1>1. k \in 1 .. (n * 55)
    OBVIOUS
<1>2. k - 1 = 55 * l + (i - 1)
    OBVIOUS
<1>3. (k - 1) \div 55 = l
    BY <1>2
<1>4. ((k - 1) % 55) + 1 = i
    BY <1>2
<1>5. k + 2 \in 1 .. 2 + n * 55 /\ ~(k + 2 <= 2) /\ (k + 2) - 2 = k
    BY <1>1
<1> QED
    BY <1>1, <1>3, <1>4, <1>5

LEMMA TokenListIs ==
    /\ TokenList \in Seq(Entry) /\ Len(TokenList) = 2 + 55 * NLayers
    /\ TokenList[1] = Put(0, Dispatch("embed", 7, UAV, <<"embed">>))
    /\ TokenList[2] = Put(0, UavBarrier("X"))
    /\ \A l \in Layers, i \in 1 .. 55 : TokenList[At(l, i)] = Put(l, LayerOps[i])
<1> PICK n \in Nat : n = NLayers
    BY LayerRecordingAssumption
<1>1. /\ LayerOps \in Seq(Operation) /\ Len(LayerOps) = 55
    BY LayerOpsIs DEF Good
<1>a. ASSUME NEW l \in Layers, NEW i \in 1 .. 55
      PROVE  \E k \in 1 .. (n * 55) :
                /\ (k - 1) \div 55 = l /\ ((k - 1) % 55) + 1 = i /\ At(l, i) = k + 2
                /\ k + 2 \in 1 .. 2 + n * 55 /\ ~(k + 2 <= 2) /\ (k + 2) - 2 = k
    <2>1. l \in 0 .. n - 1
        BY DEF Layers
    <2> PICK k \in Nat : k = 55 * l + i
        BY <2>1
    <2>2. At(l, i) = k + 2
        BY <2>1 DEF At
    <2>3. /\ k \in 1 .. (n * 55) /\ (k - 1) \div 55 = l /\ ((k - 1) % 55) + 1 = i
          /\ k + 2 \in 1 .. 2 + n * 55 /\ ~(k + 2 <= 2) /\ (k + 2) - 2 = k
        BY <2>1, PlaceArithmetic
    <2> QED
        BY <2>2, <2>3
<1> PICK t : t = [i \in 1 .. (n * 55) |-> Put((i - 1) \div 55, LayerOps[((i - 1) % 55) + 1])]
    OBVIOUS
<1>2. \A i \in 1 .. (n * 55) : (i - 1) \div 55 \in 0 .. n - 1 /\ ((i - 1) % 55) + 1 \in 1 .. 55
    OBVIOUS
<1>3. \A i \in 1 .. (n * 55) : Put((i - 1) \div 55, LayerOps[((i - 1) % 55) + 1]) \in Entry
    <2> TAKE i \in 1 .. (n * 55)
    <2> PICK l, k : l = (i - 1) \div 55 /\ k = ((i - 1) % 55) + 1
        OBVIOUS
    <2>1. l \in Layers /\ k \in 1 .. 55
        BY <1>2 DEF Layers
    <2>2. LayerOps[k] \in Operation
        BY <1>1, <2>1, ElementOfSeq
    <2> QED
        BY <2>1, <2>2 DEF Put, Entry
<1>4. t \in Seq(Entry) /\ Len(t) = n * 55
    <2>1. t \in [1 .. (n * 55) -> Entry] /\ n * 55 \in Nat
        BY <1>3
    <2> QED
        BY <2>1, FunctionIsSeq
<1>5. TokenList = OnLayer(0, EmbedOps) \o t
    BY <1>1 DEF TokenList, Put
<1> PICK e : e = OnLayer(0, EmbedOps)
    OBVIOUS
<1>6. e \in Seq(Entry) /\ Len(e) = 2
    BY EmbedIs
<1>7. /\ TokenList \in Seq(Entry) /\ Len(TokenList) = 2 + n * 55
      /\ \A i \in 1 .. 2 + n * 55 : TokenList[i] = IF i <= 2 THEN e[i] ELSE t[i - 2]
    <2> PICK r : r = e \o t
        OBVIOUS
    <2>1. /\ r \in Seq(Entry) /\ Len(r) = Len(e) + Len(t)
          /\ \A i \in 1 .. Len(e) + Len(t) : r[i] = IF i <= Len(e) THEN e[i] ELSE t[i - Len(e)]
        BY <1>4, <1>6, ConcatProperties
    <2>2. TokenList = r
        BY <1>5
    <2>3. Len(e) = 2 /\ Len(t) = n * 55
        BY <1>4, <1>6
    <2> QED
        BY <2>1, <2>2, <2>3
<1>8. TokenList[1] = e[1] /\ TokenList[2] = e[2]
    BY <1>7
<1>9. ASSUME NEW l \in Layers, NEW i \in 1 .. 55 PROVE TokenList[At(l, i)] = Put(l, LayerOps[i])
    <2>1. PICK k \in 1 .. (n * 55) :
            /\ (k - 1) \div 55 = l /\ ((k - 1) % 55) + 1 = i /\ At(l, i) = k + 2
            /\ k + 2 \in 1 .. 2 + n * 55 /\ ~(k + 2 <= 2) /\ (k + 2) - 2 = k
        BY <1>a
    <2>4. TokenList[k + 2] = t[k]
        BY <1>7, <2>1
    <2>5. t[k] = Put((k - 1) \div 55, LayerOps[((k - 1) % 55) + 1])
        BY <2>1
    <2> QED
        BY <2>1, <2>4, <2>5, Zenon
<1> QED
    BY <1>7, <1>8, <1>9, EmbedIs

\* Every place of the list is one of the embedding's or of a layer's.
LEMMA Places ==
    /\ \A l \in Layers, i \in 1 .. 55 : At(l, i) \in 3 .. Len(TokenList)
    /\ \A p \in 1 .. Len(TokenList) :
        p = 1 \/ p = 2 \/ \E l \in Layers, i \in 1 .. 55 : p = At(l, i)
<1> PICK n \in Nat : n = NLayers
    BY LayerRecordingAssumption
<1>1. Len(TokenList) = 2 + 55 * n
    BY TokenListIs
<1>2. ASSUME NEW l \in Layers, NEW i \in 1 .. 55 PROVE At(l, i) \in 3 .. Len(TokenList)
    BY <1>1 DEF At, Layers
<1>3. ASSUME NEW p \in 1 .. Len(TokenList), p # 1, p # 2
      PROVE  \E l \in Layers, i \in 1 .. 55 : p = At(l, i)
    <2>1. /\ (p - 3) \div 55 \in Layers /\ ((p - 3) % 55) + 1 \in 1 .. 55
        BY <1>1, <1>3 DEF Layers
    <2>2. p = 2 + 55 * ((p - 3) \div 55) + (((p - 3) % 55) + 1)
        BY <1>1, <1>3
    <2> QED
        BY <2>1, <2>2 DEF At
<1> QED
    BY <1>2, <1>3


\* The five entries of a StoreRow in a list.
Storing(L, g, l, c, f) ==
    /\ g >= 1 /\ g + 4 <= Len(L)
    /\ L[g] = Put(l, Transition(f, "uav", "copySrc"))
    /\ L[g + 1] = Put(l, Transition(c, "srv", "copyDst"))
    /\ L[g + 2] = Put(l, CopyRow(c, f))
    /\ L[g + 3] = Put(l, Transition(f, "copySrc", "uav"))
    /\ L[g + 4] = Put(l, Transition(c, "copyDst", "srv"))

\* Place p of list L writes the named buffer of layer l, in order.
Produces(L, p, l, name) ==
    /\ p + 1 \in 1 .. Len(L)
    /\ L[p].layer = l /\ L[p].do.op = "dispatch"
    /\ L[p + 1] = Put(l, UavBarrier(name))

LEMMA TokenLength == Len(TokenList) \in Nat /\ Len(TokenList) = 2 + 55 * NLayers /\ Len(TokenList) >= 57
BY TokenListIs, LayerRecordingAssumption

LEMMA PutIs ==
    ASSUME NEW l, NEW op
    PROVE  Put(l, op).layer = l /\ Put(l, op).do = op
BY DEF Put

LEMMA Inside ==
    ASSUME NEW l \in Layers, NEW i \in 1 .. 55
    PROVE  /\ At(l, i) \in 3 .. Len(TokenList) /\ TokenList[At(l, i)] = Put(l, LayerOps[i])
           /\ TokenList[At(l, i)].layer = l /\ TokenList[At(l, i)].do = LayerOps[i]
           /\ i < 55 => /\ At(l, i) + 1 = At(l, i + 1) /\ At(l, i) < Len(TokenList)
                        /\ TokenList[At(l, i) + 1] = Put(l, LayerOps[i + 1])
           /\ i > 1 => At(l, i) - 1 = At(l, i - 1) /\ TokenList[At(l, i) - 1] = Put(l, LayerOps[i - 1])
<1>1. At(l, i) \in 3 .. Len(TokenList)
    BY Places
<1>2. TokenList[At(l, i)] = Put(l, LayerOps[i])
    BY TokenListIs
<1>3. ASSUME i < 55
      PROVE  /\ At(l, i) + 1 = At(l, i + 1) /\ At(l, i) < Len(TokenList)
             /\ TokenList[At(l, i) + 1] = Put(l, LayerOps[i + 1])
    <2>1. i + 1 \in 1 .. 55
        BY <1>3
    <2>2. At(l, i) + 1 = At(l, i + 1)
        BY DEF At, Layers
    <2>3. At(l, i + 1) \in 3 .. Len(TokenList) /\ TokenList[At(l, i + 1)] = Put(l, LayerOps[i + 1])
        BY <2>1, Places, TokenListIs
    <2>4. At(l, i) < Len(TokenList)
        BY <1>1, <2>2, <2>3
    <2> QED
        BY <2>2, <2>3, <2>4
<1>4. ASSUME i > 1
      PROVE  At(l, i) - 1 = At(l, i - 1) /\ TokenList[At(l, i) - 1] = Put(l, LayerOps[i - 1])
    <2>1. i - 1 \in 1 .. 55
        BY <1>4
    <2>2. At(l, i) - 1 = At(l, i - 1)
        BY DEF At, Layers
    <2>3. TokenList[At(l, i - 1)] = Put(l, LayerOps[i - 1])
        BY <2>1, TokenListIs
    <2> QED
        BY <2>2, <2>3
<1> QED
    BY <1>1, <1>2, <1>3, <1>4, PutIs

\* What the entries of a token's list are.
LEMMA TokenEntries ==
    ASSUME NEW p \in 1 .. Len(TokenList), NEW e, e = TokenList[p]
    PROVE  /\ e \in Entry /\ e.layer \in Layers /\ e.do \in Operation
           /\ e.do.op # "copyLogits"
           /\ e.do.op = "copyView" /\ e.do.slot = LN2 =>
                /\ p > 1 /\ e.do.from = 0
                /\ TokenList[p - 1] = Put(e.layer, View(0, "X"))
           /\ e.do.op = "dispatch" =>
                /\ p + 1 \in 1 .. Len(TokenList) /\ TokenList[p + 1].layer = e.layer
                /\ Fences(e.do, TokenList[p + 1].do)
           /\ e.do.op \in {"transition", "copyRow"} =>
                \E g \in 1 .. Len(TokenList), c \in Caches, f \in {"K", "V"} :
                    p \in g .. g + 4 /\ Storing(TokenList, g, e.layer, c, f)
<1>1. e \in Entry
    BY TokenListIs, ElementOfSeq
<1>2. e.layer \in Layers /\ e.do \in Operation
    BY <1>1 DEF Entry
<1>3. CASE p = 1
    <2>1. e = Put(0, Dispatch("embed", 7, UAV, <<"embed">>)) /\ TokenList[2] = Put(0, UavBarrier("X"))
        BY <1>3, TokenListIs
    <2>2. e.do = Dispatch("embed", 7, UAV, <<"embed">>) /\ e.layer = 0
          /\ TokenList[2].do = UavBarrier("X") /\ TokenList[2].layer = 0
        BY <2>1, PutIs
    <2>3. e.do.op = "dispatch"
        BY <2>2 DEF Dispatch
    <2>4. p + 1 = 2 /\ 2 \in 1 .. Len(TokenList)
        BY <1>3, TokenListIs, LayerRecordingAssumption
    <2>5. Fences(e.do, TokenList[p + 1].do)
        BY <2>2, <2>4, EmbedIs
    <2> QED
        BY <1>1, <1>2, <2>2, <2>3, <2>4, <2>5
<1>4. CASE p = 2
    <2>1. e.do = UavBarrier("X")
        BY <1>4, TokenListIs, PutIs
    <2>2. e.do.op = "uavBarrier"
        BY <2>1 DEF UavBarrier
    <2> QED
        BY <1>1, <1>2, <2>2
<1>5. ASSUME NEW l \in Layers, NEW i \in 1 .. 55, p = At(l, i)
      PROVE  /\ e.do.op # "copyLogits"
             /\ e.do.op = "copyView" /\ e.do.slot = LN2 =>
                  /\ p > 1 /\ e.do.from = 0
                  /\ TokenList[p - 1] = Put(e.layer, View(0, "X"))
             /\ e.do.op = "dispatch" =>
                  /\ p + 1 \in 1 .. Len(TokenList) /\ TokenList[p + 1].layer = e.layer
                  /\ Fences(e.do, TokenList[p + 1].do)
             /\ e.do.op \in {"transition", "copyRow"} =>
                  \E g \in 1 .. Len(TokenList), c \in Caches, f \in {"K", "V"} :
                      p \in g .. g + 4 /\ Storing(TokenList, g, e.layer, c, f)
    <2> PICK s : s = LayerOps
        OBVIOUS
    <2>0. /\ Len(s) = 55 /\ CopiesX(s) /\ Fenced(s) /\ Grouped(s)
          /\ \A k \in 1 .. 55 : s[k].op # "copyLogits"
        BY LayerOpsIs DEF Good
    <2>1. e.layer = l /\ e.do = s[i] /\ p \in 3 .. Len(TokenList)
        BY <1>5, Inside
    <2>2. e.do.op # "copyLogits"
        BY <2>0, <2>1
    <2>3. ASSUME e.do.op = "copyView", e.do.slot = LN2
          PROVE  p > 1 /\ e.do.from = 0 /\ TokenList[p - 1] = Put(e.layer, View(0, "X"))
        <3>1. i > 1 /\ s[i].from = 0 /\ s[i - 1] = View(0, "X")
            BY <2>0, <2>1, <2>3 DEF CopiesX
        <3>2. TokenList[p - 1] = Put(l, s[i - 1])
            BY <1>5, <3>1, Inside
        <3> QED
            BY <2>1, <3>1, <3>2
    <2>4. ASSUME e.do.op = "dispatch"
          PROVE  /\ p + 1 \in 1 .. Len(TokenList) /\ TokenList[p + 1].layer = e.layer
                 /\ Fences(e.do, TokenList[p + 1].do)
        <3>1. i < 55 /\ Fences(s[i], s[i + 1])
            BY <2>0, <2>1, <2>4 DEF Fenced
        <3>2. p < Len(TokenList) /\ TokenList[p + 1] = Put(l, s[i + 1])
            BY <1>5, <3>1, Inside
        <3>3. TokenList[p + 1].layer = l /\ TokenList[p + 1].do = s[i + 1]
            BY <3>2, PutIs
        <3>4. p + 1 \in 1 .. Len(TokenList)
            BY <2>1, <3>2, TokenLength
        <3> QED
            BY <2>1, <3>1, <3>3, <3>4
    <2>5. ASSUME e.do.op \in {"transition", "copyRow"}
          PROVE  \E g \in 1 .. Len(TokenList), c \in Caches, f \in {"K", "V"} :
                    p \in g .. g + 4 /\ Storing(TokenList, g, e.layer, c, f)
        <3>1. PICK g \in 1 .. 55, c \in Caches, f \in {"K", "V"} : i \in g .. g + 4 /\ Group(s, g, c, f)
            BY <2>0, <2>1, <2>5 DEF Grouped
        <3>2. /\ g + 4 <= 55
              /\ s[g] = Transition(f, "uav", "copySrc") /\ s[g + 1] = Transition(c, "srv", "copyDst")
              /\ s[g + 2] = CopyRow(c, f)
              /\ s[g + 3] = Transition(f, "copySrc", "uav") /\ s[g + 4] = Transition(c, "copyDst", "srv")
            BY <2>0, <3>1 DEF Group
        <3>3. /\ g \in 1 .. 55 /\ g + 1 \in 1 .. 55 /\ g + 2 \in 1 .. 55 /\ g + 3 \in 1 .. 55 /\ g + 4 \in 1 .. 55
            BY <3>2
        <3> PICK h : h = At(l, g)
            OBVIOUS
        <3>4. /\ h + 1 = At(l, g + 1) /\ h + 2 = At(l, g + 2) /\ h + 3 = At(l, g + 3) /\ h + 4 = At(l, g + 4)
              /\ p \in h .. h + 4
            BY <1>5, <3>1 DEF At, Layers
        <3>5. /\ TokenList[h] = Put(l, s[g]) /\ TokenList[h + 1] = Put(l, s[g + 1])
              /\ TokenList[h + 2] = Put(l, s[g + 2]) /\ TokenList[h + 3] = Put(l, s[g + 3])
              /\ TokenList[h + 4] = Put(l, s[g + 4])
            BY <3>3, <3>4, TokenListIs
        <3>6. h \in 3 .. Len(TokenList) /\ h + 4 \in 3 .. Len(TokenList)
            BY <3>3, <3>4, Places
        <3>7. h \in 1 .. Len(TokenList) /\ h >= 1 /\ h + 4 <= Len(TokenList)
            BY <3>6
        <3>8. Storing(TokenList, h, l, c, f)
            BY <3>2, <3>5, <3>7 DEF Storing
        <3> QED
            BY <2>1, <3>4, <3>7, <3>8
    <2> QED
        BY <2>2, <2>3, <2>4, <2>5
<1> QED
    BY <1>1, <1>2, <1>3, <1>4, <1>5, Places

\* Their order: a row is copied behind the kernel that computes it and read
\* behind its copy; each layer copies a row of both caches; the embedding of
\* layer 0 comes first.
LEMMA TokenOrder ==
    /\ \A p \in 1 .. Len(TokenList) : TokenList[p].do.op = "copyRow" =>
         \E k \in 1 .. p - 1 : Produces(TokenList, k, TokenList[p].layer, TokenList[p].do.from)
    /\ \A p \in 1 .. Len(TokenList) :
         TokenList[p].do.op = "dispatch" /\ TokenList[p].do.kernel = "attn" =>
         \A c \in Caches : \E k \in 1 .. p - 1, f \in {"K", "V"} :
            TokenList[k] = Put(TokenList[p].layer, CopyRow(c, f))
    /\ \A l \in Layers, c \in Caches : \E k \in 1 .. Len(TokenList), f \in {"K", "V"} :
         TokenList[k] = Put(l, CopyRow(c, f))
    /\ Produces(TokenList, 1, 0, "X")
    /\ \A p \in 1 .. Len(TokenList) :
         TokenList[p].do.op = "dispatch" /\ TokenList[p].do.kernel \in {"ln", "attn"} => p > 2
<1> PICK s : s = LayerOps
    OBVIOUS
<1>0. /\ Writes(s, 11, "K") /\ Writes(s, 14, "V")
      /\ Copies(s, 19, "Kcache", "K") /\ Copies(s, 24, "Vcache", "V")
      /\ CopiesIn(s, {19, 24}) /\ AttendsFrom(s, 26) /\ Len(s) = 55
    BY LayerOpsIs DEF Good
<1>1. /\ TokenList[1].do.op = "dispatch" /\ TokenList[1].do.kernel = "embed"
      /\ TokenList[1].layer = 0
      /\ TokenList[2] = Put(0, UavBarrier("X")) /\ TokenList[2].do.op = "uavBarrier"
    BY TokenListIs DEF Put, Dispatch, UavBarrier
<1>2. ASSUME NEW l \in Layers, NEW k \in 1 .. 54, NEW name, Writes(s, k, name)
      PROVE  Produces(TokenList, At(l, k), l, name)
    <2>1. s[k].op = "dispatch" /\ s[k + 1] = UavBarrier(name)
        BY <1>2 DEF Writes
    <2>a. k \in 1 .. 55 /\ k < 55
        OBVIOUS
    <2>2. /\ TokenList[At(l, k)].layer = l /\ TokenList[At(l, k)].do = s[k]
          /\ At(l, k) \in 3 .. Len(TokenList) /\ At(l, k) < Len(TokenList)
          /\ TokenList[At(l, k) + 1] = Put(l, s[k + 1])
        BY <2>a, Inside
    <2>3. At(l, k) + 1 \in 1 .. Len(TokenList)
        BY <2>2, TokenLength
    <2> QED
        BY <2>1, <2>2, <2>3 DEF Produces
<1>3. ASSUME NEW p \in 1 .. Len(TokenList), TokenList[p].do.op = "copyRow"
      PROVE  \E k \in 1 .. p - 1 : Produces(TokenList, k, TokenList[p].layer, TokenList[p].do.from)
    <2>1. PICK l \in Layers, i \in 1 .. 55 : p = At(l, i)
        BY <1>1, <1>3, Places
    <2>2. TokenList[p].layer = l /\ TokenList[p].do = s[i]
        BY <2>1, Inside
    <2>3. i \in {19, 24}
        BY <1>0, <1>3, <2>2 DEF CopiesIn
    <2>4. s[19].from = "K" /\ s[24].from = "V"
        BY <1>0 DEF Copies, CopyRow
    <2>5. CASE i = 19
        <3>1. Produces(TokenList, At(l, 11), l, "K")
            BY <1>0, <1>2
        <3>2. At(l, 11) \in 1 .. p - 1
            BY <2>1, <2>5 DEF At, Layers
        <3> QED
            BY <2>2, <2>4, <2>5, <3>1, <3>2
    <2>6. CASE i = 24
        <3>1. Produces(TokenList, At(l, 14), l, "V")
            BY <1>0, <1>2
        <3>2. At(l, 14) \in 1 .. p - 1
            BY <2>1, <2>6 DEF At, Layers
        <3> QED
            BY <2>2, <2>4, <2>6, <3>1, <3>2
    <2> QED
        BY <2>3, <2>5, <2>6
<1>4. ASSUME NEW l \in Layers, NEW c \in Caches
      PROVE  \E i \in {19, 24}, f \in {"K", "V"} : TokenList[At(l, i)] = Put(l, CopyRow(c, f))
    <2>1. c = "Kcache" \/ c = "Vcache"
        BY DEF Caches
    <2>2. TokenList[At(l, 19)] = Put(l, s[19]) /\ TokenList[At(l, 24)] = Put(l, s[24])
        BY TokenListIs
    <2>3. s[19] = CopyRow("Kcache", "K") /\ s[24] = CopyRow("Vcache", "V")
        BY <1>0 DEF Copies
    <2> QED
        BY <2>1, <2>2, <2>3
<1>5. ASSUME NEW p \in 1 .. Len(TokenList), TokenList[p].do.op = "dispatch",
             TokenList[p].do.kernel = "attn", NEW c \in Caches
      PROVE  \E k \in 1 .. p - 1, f \in {"K", "V"} : TokenList[k] = Put(TokenList[p].layer, CopyRow(c, f))
    <2>1. PICK l \in Layers, i \in 1 .. 55 : p = At(l, i)
        BY <1>1, <1>5, Places
    <2>2. TokenList[p].layer = l /\ TokenList[p].do = s[i]
        BY <2>1, Inside
    <2>3. i > 26
        BY <1>0, <1>5, <2>2 DEF AttendsFrom
    <2>4. PICK j \in {19, 24}, f \in {"K", "V"} : TokenList[At(l, j)] = Put(l, CopyRow(c, f))
        BY <1>4
    <2>5. At(l, j) \in 1 .. p - 1
        BY <2>1, <2>3 DEF At, Layers
    <2> QED
        BY <2>2, <2>4, <2>5
<1>6. ASSUME NEW l \in Layers, NEW c \in Caches
      PROVE  \E k \in 1 .. Len(TokenList), f \in {"K", "V"} : TokenList[k] = Put(l, CopyRow(c, f))
    <2>1. PICK i \in {19, 24}, f \in {"K", "V"} : TokenList[At(l, i)] = Put(l, CopyRow(c, f))
        BY <1>4
    <2>2. i \in 1 .. 55
        OBVIOUS
    <2>3. At(l, i) \in 3 .. Len(TokenList)
        BY <2>2, Places
    <2>4. At(l, i) \in 1 .. Len(TokenList)
        BY <2>3, TokenLength
    <2> QED
        BY <2>1, <2>4
<1>7. Produces(TokenList, 1, 0, "X")
    <2>1. 1 + 1 \in 1 .. Len(TokenList)
        BY TokenLength
    <2> QED
        BY <1>1, <2>1 DEF Produces
<1>8. \A p \in 1 .. Len(TokenList) :
         TokenList[p].do.op = "dispatch" /\ TokenList[p].do.kernel \in {"ln", "attn"} => p > 2
    BY <1>1, TokenListIs
<1> QED
    BY <1>3, <1>5, <1>6, <1>7, <1>8


-----------------------------------------------------------------------------
(* The list of logits, the lists' commands and positions                     *)

LEMMA LogitsListIs ==
    /\ Len(LogitsList) = 7 /\ DOMAIN LogitsList = 1 .. 7
    /\ NLayers - 1 \in Layers
    /\ LogitsList[1] = Put(NLayers - 1, View(0, "X"))
    /\ LogitsList[2] = Put(NLayers - 1, View(1, "lmHead"))
    /\ LogitsList[3] = Put(NLayers - 1, Dispatch("mm", 0, UAV, <<"X", "lmHead">>))
    /\ LogitsList[4] = Put(NLayers - 1, UavBarrier("logits"))
    /\ LogitsList[5] = Put(NLayers - 1, Transition("logits", "uav", "copySrc"))
    /\ LogitsList[6] = Put(NLayers - 1, CopyLogits)
    /\ LogitsList[7] = Put(NLayers - 1, Transition("logits", "copySrc", "uav"))
<1>1. PICK a, b, c, d, e, f, g :
        /\ a = View(0, "X") /\ b = View(1, "lmHead") /\ c = Dispatch("mm", 0, UAV, <<"X", "lmHead">>)
        /\ d = UavBarrier("logits") /\ e = Transition("logits", "uav", "copySrc") /\ f = CopyLogits
        /\ g = Transition("logits", "copySrc", "uav")
    OBVIOUS
<1> PICK S : S = {a, b, c, d, e, f, g}
    OBVIOUS
<1>2. LogitsOps = <<a, b>> \o <<c, d>> \o <<e, f, g>>
    BY <1>1 DEF LogitsOps, Kernel
<1>3. <<a, b>> \in Seq(S) /\ <<c, d>> \in Seq(S) /\ <<e, f, g>> \in Seq(S)
    OBVIOUS
<1> PICK s : s = <<a, b>> \o <<c, d>>
    OBVIOUS
<1>4. /\ s \in Seq(S) /\ Len(s) = 4 /\ s[1] = a /\ s[2] = b /\ s[3] = c /\ s[4] = d
    <2>1. /\ s \in Seq(S) /\ Len(s) = 2 + 2
          /\ \A i \in 1 .. 2 + 2 : s[i] = IF i <= 2 THEN <<a, b>>[i] ELSE <<c, d>>[i - 2]
        <3>1. Len(<<a, b>>) = 2 /\ Len(<<c, d>>) = 2
            OBVIOUS
        <3> QED
            BY <1>3, <3>1, ConcatProperties
    <2> QED
        BY <2>1
<1> PICK t : t = s \o <<e, f, g>>
    OBVIOUS
<1>5. /\ t \in Seq(S) /\ Len(t) = 7 /\ t[1] = a /\ t[2] = b /\ t[3] = c /\ t[4] = d /\ t[5] = e
      /\ t[6] = f /\ t[7] = g
    <2>1. /\ t \in Seq(S) /\ Len(t) = 4 + 3
          /\ \A i \in 1 .. 4 + 3 : t[i] = IF i <= 4 THEN s[i] ELSE <<e, f, g>>[i - 4]
        <3>1. Len(<<e, f, g>>) = 3
            OBVIOUS
        <3> QED
            BY <1>3, <1>4, <3>1, ConcatProperties
    <2> QED
        BY <1>4, <2>1
<1>6. LogitsOps = t
    BY <1>2
<1>7. DOMAIN t = 1 .. 7
    BY <1>5
<1>8. LogitsList = [i \in 1 .. 7 |-> Put(NLayers - 1, t[i])]
    BY <1>6, <1>7 DEF LogitsList, OnLayer, Put
<1>9. NLayers - 1 \in Layers
    BY LayerRecordingAssumption DEF Layers
<1> PICK U : U = [layer : Layers, do : S]
    OBVIOUS
<1>10. \A i \in 1 .. 7 : Put(NLayers - 1, t[i]) \in U
    <2>1. \A i \in 1 .. 7 : t[i] \in S
        BY <1>5
    <2> QED
        BY <1>9, <2>1 DEF Put
<1>11. LogitsList \in [1 .. 7 -> U]
    BY <1>8, <1>10
<1>12. Len(LogitsList) = 7 /\ DOMAIN LogitsList = 1 .. 7
    <2>1. 7 \in Nat
        OBVIOUS
    <2> QED
        BY <1>11, <2>1, FunctionIsSeq
<1>13. \A i \in 1 .. 7 : LogitsList[i] = Put(NLayers - 1, t[i])
    BY <1>8
<1>14. /\ LogitsList[1] = Put(NLayers - 1, a) /\ LogitsList[2] = Put(NLayers - 1, b)
       /\ LogitsList[3] = Put(NLayers - 1, c) /\ LogitsList[4] = Put(NLayers - 1, d)
       /\ LogitsList[5] = Put(NLayers - 1, e) /\ LogitsList[6] = Put(NLayers - 1, f)
       /\ LogitsList[7] = Put(NLayers - 1, g)
    BY <1>5, <1>13
<1> QED
    BY <1>1, <1>9, <1>12, <1>14

LEMMA Minimum ==
    ASSUME NEW S \in SUBSET Nat, S # {}
    PROVE  \E x \in S : \A y \in S : x <= y
<1>1. PICK x \in S : \A y \in S : <<y, x>> \notin OpToRel(<, Nat)
    BY NatLessThanWellFounded, WFMin, Zenon
<1>2. ASSUME NEW y \in S PROVE x <= y
    <2>1. ~(y < x)
        BY <1>1, <<y, x>>[1] = y, <<y, x>>[2] = x, <<y, x>> \in Nat \X Nat DEF OpToRel
    <2> QED
        BY <2>1
<1> QED
    BY <1>2

LEMMA ListLength ==
    ASSUME NEW j \in Nat
    PROVE  /\ Len(Ops(j)) \in Nat /\ Len(Ops(j)) <= Len(TokenList) /\ Len(Ops(j)) >= 7
           /\ DOMAIN Ops(j) = 1 .. Len(Ops(j))
           /\ IsToken(j) => Ops(j) = TokenList
           /\ ~IsToken(j) => Ops(j) = LogitsList
<1>1. DOMAIN TokenList = 1 .. Len(TokenList) /\ DOMAIN LogitsList = 1 .. Len(LogitsList)
    BY TokenListIs, LogitsListIs, LenProperties
<1> QED
    <2>1. CASE IsToken(j)
        BY <1>1, <2>1, TokenLength DEF Ops
    <2>2. CASE ~IsToken(j)
        <3>1. Ops(j) = LogitsList
            BY <2>2 DEF Ops
        <3>2. Len(LogitsList) = 7 /\ DOMAIN LogitsList = 1 .. 7
            BY LogitsListIs
        <3>3. 7 <= Len(TokenList) /\ 7 \in Nat
            BY TokenLength
        <3> QED
            BY <2>2, <3>1, <3>2, <3>3
    <2> QED
        BY <2>1, <2>2

\* NextCommand is the place of a command or the end, and it passes no command.
LEMMA NextCommandIs ==
    ASSUME NEW j \in Nat, NEW i \in 1 .. Len(Ops(j)) + 1, NEW k, k = NextCommand(j, i)
    PROVE  /\ k \in 1 .. Len(Ops(j)) + 1 /\ k >= i
           /\ k <= Len(Ops(j)) => ~OnCpu(Ops(j)[k])
           /\ \A m \in i .. k - 1 : m \in 1 .. Len(Ops(j)) /\ OnCpu(Ops(j)[m])
<1> PICK n \in Nat : n = Len(Ops(j)) /\ DOMAIN Ops(j) = 1 .. n
    BY ListLength
<1> PICK S : S = CommandsFrom(j, i)
    OBVIOUS
<1>1. S = {m \in i .. n + 1 : m \in 1 .. n => ~OnCpu(Ops(j)[m])}
    BY DEF CommandsFrom
<1>2. n + 1 \in S /\ S \in SUBSET Nat
    BY <1>1
<1>3. \E x \in S : \A y \in S : x <= y
    BY <1>2, Minimum
<1>4. k \in S /\ \A y \in S : k <= y
    <2>1. k = CHOOSE x \in S : \A y \in S : x <= y
        BY DEF NextCommand
    <2> QED
        BY <1>3, <2>1, Zenon
<1>5. k \in i .. n + 1 /\ (k \in 1 .. n => ~OnCpu(Ops(j)[k]))
    BY <1>1, <1>4
<1>6. ASSUME NEW m \in i .. k - 1 PROVE m \in 1 .. n /\ OnCpu(Ops(j)[m])
    <2>1. m \in i .. n + 1 /\ m \in 1 .. n /\ ~(k <= m)
        BY <1>5
    <2>2. m \notin S
        BY <1>4, <2>1
    <2> QED
        BY <1>1, <2>1, <2>2
<1> QED
    BY <1>5, <1>6

\* Right behind a place whose next operation is a command.
LEMMA NextIsCommand ==
    ASSUME NEW j \in Nat, NEW i \in 1 .. Len(Ops(j)), ~OnCpu(Ops(j)[i])
    PROVE  NextCommand(j, i) = i
<1> PICK k : k = NextCommand(j, i)
    OBVIOUS
<1>0. Len(Ops(j)) \in Nat
    BY ListLength
<1>1. /\ k \in 1 .. Len(Ops(j)) + 1 /\ k >= i
      /\ \A m \in i .. k - 1 : OnCpu(Ops(j)[m])
    BY <1>0, NextCommandIs
<1>2. CASE k > i
    <2>1. i \in i .. k - 1
        BY <1>0, <1>1, <1>2
    <2> QED
        BY <1>1, <2>1
<1> QED
    BY <1>0, <1>1, <1>2

\* The positions of the lists.
TokensUpTo(r) == IF IsToken(r + 1) THEN SeqPos(r + 1) ELSE SeqPos(r + 1) + 1

LEMMA PositionsAre ==
    /\ \A r \in 0 .. MaxJobs - 1 : SeqPos(r + 1) \in Positions
    /\ \A r \in Nat : SeqPos(r + 1) \in Nat
    /\ TokensUpTo(0) = 0 /\ MaxJobs \in Nat
    /\ \A r \in Nat : TokensUpTo(r + 1) = IF IsToken(r + 1) THEN TokensUpTo(r) + 1 ELSE TokensUpTo(r)
    /\ Positions \subseteq Nat
<1>0. Prompt \in Nat \ {0} /\ Steps \in Nat
    BY LayerRecordingAssumption
<1>1. ASSUME NEW r \in 0 .. MaxJobs - 1 PROVE SeqPos(r + 1) \in Positions
    BY <1>0 DEF SeqPos, Positions, MaxJobs
<1>2. ASSUME NEW r \in Nat PROVE SeqPos(r + 1) \in Nat
    BY <1>0 DEF SeqPos
<1>3. TokensUpTo(0) = 0
    BY <1>0 DEF SeqPos, TokensUpTo, IsToken
<1>4. ASSUME NEW r \in Nat
      PROVE  TokensUpTo(r + 1) = IF IsToken(r + 1) THEN TokensUpTo(r) + 1 ELSE TokensUpTo(r)
    <2>1. CASE r + 2 <= Prompt
        BY <1>0, <2>1 DEF SeqPos, TokensUpTo, IsToken
    <2>2. CASE r + 1 = Prompt
        BY <1>0, <2>2 DEF SeqPos, TokensUpTo, IsToken
    <2>3. CASE r + 1 > Prompt
        <3>1. CASE (r + 1 - Prompt) % 2 = 0
            BY <1>0, <2>3, <3>1 DEF SeqPos, TokensUpTo, IsToken
        <3>2. CASE (r + 1 - Prompt) % 2 # 0
            BY <1>0, <2>3, <3>2 DEF SeqPos, TokensUpTo, IsToken
        <3> QED
            BY <3>1, <3>2
    <2> QED
        BY <1>0, <2>1, <2>2, <2>3
<1> QED
    BY <1>0, <1>1, <1>2, <1>3, <1>4 DEF MaxJobs, Positions


-----------------------------------------------------------------------------
(* The inductive invariant                                                   *)

List == Ops(ran + 1)

CpuInv ==
    /\ job \in 0 .. MaxJobs /\ ran \in 0 .. Submitted
    /\ at \in 0 .. Len(Ops(job)) + 1
    /\ at # 0 => job >= 1

\* Slots 0 and 1 are the remapped ones; the view copied to LN2 is still X's.
HeapInv ==
    /\ heap \in [Layers -> [Slots -> Resources]]
    /\ \A l \in Layers, s \in 2 .. 22 : heap[l][s] = Res(Window[s + 1], l)
    /\ at \in 1 .. Len(Ops(job)) /\ Recorded.do.op = "copyView" /\ Recorded.do.slot = LN2 =>
         heap[Recorded.layer][0] = Res("X", Recorded.layer)

PlaceInv ==
    /\ gpuAt \in 1 .. Len(List) + 1
    /\ gpuAt <= Len(List) => ~OnCpu(List[gpuAt])

\* What a list's dispatches have written behind the GPU's place.
HeldInv ==
    /\ holds \in [Resources -> Positions \cup {-1}]
    /\ IsToken(ran + 1) =>
        \A k \in 1 .. gpuAt - 1, l \in Layers, name \in Names :
            Produces(List, k, l, name) => holds[Res(name, l)] = Pos

\* tokens among the lists run
TokensRun == IF IsToken(ran + 1) THEN Pos ELSE Pos + 1
Passed(c, l) ==
    IsToken(ran + 1) /\ \E k \in 1 .. gpuAt - 1, f \in {"K", "V"} : List[k] = Put(l, CopyRow(c, f))
RowsInv ==
    /\ rows \in [Caches \X Layers -> [Positions -> Positions \cup {-1}]]
    /\ \A c \in Caches, l \in Layers, p \in Positions :
        rows[<<c, l>>][p] = IF p < TokensRun \/ (p = TokensRun /\ Passed(c, l)) THEN p ELSE -1

\* Only between a dispatch and its barrier is there anything to wait for.
OrderInv ==
    /\ unordered \subseteq Resources
    /\ IsToken(ran + 1) =>
        /\ gpuAt <= Len(List) /\ List[gpuAt].do.op = "uavBarrier" => unordered \subseteq {CurrentRes}
        /\ ~(gpuAt <= Len(List) /\ List[gpuAt].do.op = "uavBarrier") => unordered = {}
    /\ ~IsToken(ran + 1) /\ gpuAt <= 3 => unordered = {}

\* The buffers a copy under way has taken out of their usual state.
Lent(L, p) ==
    {r \in Resources : \E l \in Layers, c \in Caches, f \in {"K", "V"}, k \in 1 .. 3 :
        Storing(L, p - k, l, c, f) /\ r = Res(f, l)}
Filled(L, p) ==
    {r \in Resources : \E l \in Layers, c \in Caches, f \in {"K", "V"}, k \in 2 .. 4 :
        Storing(L, p - k, l, c, f) /\ r = Res(c, l)}
LentNow ==
    IF IsToken(ran + 1) THEN Lent(List, gpuAt)
    ELSE IF gpuAt \in {6, 7} THEN {Res("logits", NLayers - 1)} ELSE {}
FilledNow == IF IsToken(ran + 1) THEN Filled(List, gpuAt) ELSE {}
Settled(r) ==
    /\ r[1] \in Caches => state[r] = "srv" \/ (state[r] = "uav" /\ \A p \in Positions : rows[r][p] = -1)
    /\ r[1] \notin Caches => state[r] = InitialState(r)
StateInv ==
    /\ state \in [Resources -> ResourceStates]
    /\ \A r \in Resources :
        /\ r \in LentNow => state[r] = "copySrc"
        /\ r \in FilledNow => state[r] = "copyDst"
        /\ r \notin LentNow \cup FilledNow => Settled(r)

Inv == CpuInv /\ HeapInv /\ PlaceInv /\ HeldInv /\ RowsInv /\ OrderInv /\ StateInv

-----------------------------------------------------------------------------
(* Copies under way                                                          *)

LEMMA StoringKinds ==
    ASSUME NEW L, NEW g \in Int, NEW l, NEW c, NEW f, Storing(L, g, l, c, f), NEW p \in g .. g + 4
    PROVE  /\ L[p].layer = l
           /\ p = g => L[p].do = Transition(f, "uav", "copySrc")
           /\ p = g + 1 => L[p].do = Transition(c, "srv", "copyDst")
           /\ p = g + 2 => L[p].do = CopyRow(c, f)
           /\ p = g + 3 => L[p].do = Transition(f, "copySrc", "uav")
           /\ p = g + 4 => L[p].do = Transition(c, "copyDst", "srv")
           /\ L[p].do.op \in {"transition", "copyRow"} /\ ~OnCpu(L[p])
<1>1. p = g \/ p = g + 1 \/ p = g + 2 \/ p = g + 3 \/ p = g + 4
    OBVIOUS
<1>2. CASE p = g
    BY <1>2, PutIs DEF Storing, Transition, OnCpu
<1>3. CASE p = g + 1
    BY <1>3, PutIs DEF Storing, Transition, OnCpu
<1>4. CASE p = g + 2
    BY <1>4, PutIs DEF Storing, CopyRow, OnCpu
<1>5. CASE p = g + 3
    BY <1>5, PutIs DEF Storing, Transition, OnCpu
<1>6. CASE p = g + 4
    BY <1>6, PutIs DEF Storing, Transition, OnCpu
<1> QED
    BY <1>1, <1>2, <1>3, <1>4, <1>5, <1>6

Offset(op) ==
    IF op.op = "copyRow" THEN 2
    ELSE IF op.before = "uav" THEN 0
    ELSE IF op.before = "srv" THEN 1
    ELSE IF op.before = "copySrc" THEN 3
    ELSE 4

LEMMA StoringOffset ==
    ASSUME NEW L, NEW g \in Int, NEW l, NEW c, NEW f, Storing(L, g, l, c, f), NEW p \in g .. g + 4
    PROVE  Offset(L[p].do) = p - g
<1>1. p = g \/ p = g + 1 \/ p = g + 2 \/ p = g + 3 \/ p = g + 4
    OBVIOUS
<1>2. /\ Offset(Transition(f, "uav", "copySrc")) = 0 /\ Offset(Transition(c, "srv", "copyDst")) = 1
      /\ Offset(CopyRow(c, f)) = 2 /\ Offset(Transition(f, "copySrc", "uav")) = 3
      /\ Offset(Transition(c, "copyDst", "srv")) = 4
    BY DEF Offset, Transition, CopyRow
<1> QED
    BY <1>1, <1>2, StoringKinds

\* A place belongs to one copy only.
LEMMA StoringUnique ==
    ASSUME NEW L, NEW g \in Int, NEW l, NEW c, NEW f, Storing(L, g, l, c, f), NEW p \in g .. g + 4,
           NEW h \in Int, NEW m, NEW d, NEW e, Storing(L, h, m, d, e), p \in h .. h + 4
    PROVE  g = h /\ l = m /\ c = d /\ f = e
<1>1. Offset(L[p].do) = p - g /\ Offset(L[p].do) = p - h
    BY StoringOffset
<1>2. g = h
    BY <1>1
<1>3. L[g + 2] = Put(l, CopyRow(c, f)) /\ L[g + 2] = Put(m, CopyRow(d, e))
    BY <1>2 DEF Storing
<1>4. l = m /\ CopyRow(c, f) = CopyRow(d, e)
    <2>1. /\ Put(l, CopyRow(c, f)).layer = l /\ Put(l, CopyRow(c, f)).do = CopyRow(c, f)
          /\ Put(m, CopyRow(d, e)).layer = m /\ Put(m, CopyRow(d, e)).do = CopyRow(d, e)
        BY PutIs
    <2>2. Put(l, CopyRow(c, f)) = Put(m, CopyRow(d, e))
        BY <1>3
    <2> QED
        BY <2>1, <2>2
<1>5. CopyRow(c, f).name = c /\ CopyRow(c, f).from = f /\ CopyRow(d, e).name = d /\ CopyRow(d, e).from = e
    BY DEF CopyRow
<1> QED
    BY <1>2, <1>4, <1>5

LEMMA ResourcesAre ==
    /\ \A n \in Names, l \in Layers : Res(n, l) \in Resources
    /\ \A n, l : Res(n, l)[1] = n
    /\ \A c \in Caches : \A l : Res(c, l) = <<c, l>> /\ c \in Names
    /\ "K" \in Names /\ "V" \in Names /\ "K" \notin Caches /\ "V" \notin Caches
<1>1. \A n \in Names, l \in Layers : Res(n, l) \in Resources
    BY DEF Resources
<1>2. \A n, l : Res(n, l)[1] = n
    BY DEF Res
<1>3. \A c \in Caches : \A l : Res(c, l) = <<c, l>> /\ c \in Names
    BY NamesAre DEF Res, Caches, Global
<1> QED
    BY <1>1, <1>2, <1>3, NamesAre DEF Caches

\* What is lent and filled in the middle of a copy.
Lends(L, g, l, c, f, p) ==
    /\ p \in g + 1 .. g + 3 => Lent(L, p) = {Res(f, l)}
    /\ p \notin g + 1 .. g + 3 => Lent(L, p) = {}
    /\ p \in g + 2 .. g + 4 => Filled(L, p) = {Res(c, l)}
    /\ p \notin g + 2 .. g + 4 => Filled(L, p) = {}

LEMMA LentIs ==
    ASSUME NEW L, NEW g \in Int, NEW l \in Layers, NEW c \in Caches, NEW f \in {"K", "V"},
           Storing(L, g, l, c, f), NEW p \in g .. g + 4
    PROVE  Lends(L, g, l, c, f, p)
<1>0. Res(f, l) \in Resources /\ Res(c, l) \in Resources
    BY ResourcesAre
<1>1. ASSUME NEW m \in Layers, NEW d \in Caches, NEW e \in {"K", "V"}, NEW k \in 1 .. 4,
             Storing(L, p - k, m, d, e)
      PROVE  p - k = g /\ m = l /\ d = c /\ e = f
    <2>1. p - k \in Int /\ p \in p - k .. (p - k) + 4
        OBVIOUS
    <2> QED
        BY <1>1, <2>1, StoringUnique
<1>2. p \in g + 1 .. g + 3 => Lent(L, p) = {Res(f, l)}
    <2> SUFFICES ASSUME p \in g + 1 .. g + 3 PROVE Lent(L, p) = {Res(f, l)}
        OBVIOUS
    <2>1. p - g \in 1 .. 3 /\ p - (p - g) = g
        OBVIOUS
    <2>2. Res(f, l) \in Lent(L, p)
        BY <1>0, <2>1 DEF Lent
    <2>3. ASSUME NEW r \in Lent(L, p) PROVE r = Res(f, l)
        BY <1>1 DEF Lent
    <2> QED
        BY <2>2, <2>3
<1>3. p \notin g + 1 .. g + 3 => Lent(L, p) = {}
    BY <1>1 DEF Lent
<1>4. p \in g + 2 .. g + 4 => Filled(L, p) = {Res(c, l)}
    <2> SUFFICES ASSUME p \in g + 2 .. g + 4 PROVE Filled(L, p) = {Res(c, l)}
        OBVIOUS
    <2>1. p - g \in 2 .. 4 /\ p - (p - g) = g
        OBVIOUS
    <2>2. Res(c, l) \in Filled(L, p)
        BY <1>0, <2>1 DEF Filled
    <2>3. ASSUME NEW r \in Filled(L, p) PROVE r = Res(c, l)
        BY <1>1 DEF Filled
    <2> QED
        BY <2>2, <2>3
<1>5. p \notin g + 2 .. g + 4 => Filled(L, p) = {}
    BY <1>1 DEF Filled
<1> QED
    BY <1>2, <1>3, <1>4, <1>5 DEF Lends

\* The GPU's next command after p.
Follows(L, p, q) ==
    /\ q \in p + 1 .. Len(L) + 1
    /\ q <= Len(L) => ~OnCpu(L[q])
    /\ \A m \in p + 1 .. q - 1 : OnCpu(L[m])

\* A copy runs to its end without anything in between, and begins with its
\* first transition.
LEMMA StoreMoves ==
    ASSUME NEW L, Len(L) \in Nat, NEW p \in 1 .. Len(L), NEW q, Follows(L, p, q)
    PROVE  /\ \A g \in Int : \A l, c, f : Storing(L, g, l, c, f) /\ p \in g .. g + 3 => q = p + 1
           /\ \A g \in Int : \A l, c, f : Storing(L, g, l, c, f) /\ q \in g + 1 .. g + 4 => p \in g .. g + 3
<1>1. ASSUME NEW g \in Int, NEW l, NEW c, NEW f, Storing(L, g, l, c, f), p \in g .. g + 3 PROVE q = p + 1
    <2>1. p + 1 \in g .. g + 4
        BY <1>1
    <2>2. ~OnCpu(L[p + 1])
        BY <1>1, <2>1, StoringKinds
    <2>3. CASE q > p + 1
        <3>1. p + 1 \in p + 1 .. q - 1
            BY <2>3 DEF Follows
        <3> QED
            BY <2>2, <3>1 DEF Follows
    <2> QED
        BY <2>3 DEF Follows
<1>2. ASSUME NEW g \in Int, NEW l, NEW c, NEW f, Storing(L, g, l, c, f), q \in g + 1 .. g + 4
      PROVE  p \in g .. g + 3
    <2>1. q - 1 \in g .. g + 4
        BY <1>2
    <2>2. ~OnCpu(L[q - 1])
        BY <1>2, <2>1, StoringKinds
    <2>3. CASE q > p + 1
        <3>1. q - 1 \in p + 1 .. q - 1
            BY <2>3 DEF Follows
        <3> QED
            BY <2>2, <3>1 DEF Follows
    <2>4. CASE q = p + 1
        BY <1>2, <2>4
    <2> QED
        BY <2>3, <2>4 DEF Follows
<1> QED
    BY <1>1, <1>2

\* Behind a copy's last transition, and behind anything that is no part of one,
\* nothing is lent.
LEMMA NothingLent ==
    ASSUME NEW L, Len(L) \in Nat, NEW p \in 1 .. Len(L), NEW q, Follows(L, p, q),
           \A g \in Int, l \in Layers, c \in Caches, f \in {"K", "V"} :
                Storing(L, g, l, c, f) => p \notin g .. g + 3
    PROVE  Lent(L, q) = {} /\ Filled(L, q) = {}
<1>1. ASSUME NEW l \in Layers, NEW c \in Caches, NEW f \in {"K", "V"}, NEW k \in 1 .. 4,
             Storing(L, q - k, l, c, f)
      PROVE  FALSE
    <2>1. q - k \in Int /\ q \in (q - k) + 1 .. (q - k) + 4
        BY DEF Follows
    <2>2. p \in (q - k) .. (q - k) + 3
        BY <1>1, <2>1, StoreMoves
    <2> QED
        BY <1>1, <2>1, <2>2
<1> QED
    BY <1>1 DEF Lent, Filled

\* Nor is anything at a place that is no part of a copy.
LEMMA NotLent ==
    ASSUME NEW L, NEW p \in Int,
           \A g \in Int, l \in Layers, c \in Caches, f \in {"K", "V"} :
                Storing(L, g, l, c, f) => p \notin g + 1 .. g + 4
    PROVE  Lent(L, p) = {} /\ Filled(L, p) = {}
<1>1. ASSUME NEW l \in Layers, NEW c \in Caches, NEW f \in {"K", "V"}, NEW k \in 1 .. 4,
             Storing(L, p - k, l, c, f)
      PROVE  FALSE
    <2>1. p - k \in Int /\ p \in (p - k) + 1 .. (p - k) + 4
        OBVIOUS
    <2> QED
        BY <1>1, <2>1
<1> QED
    BY <1>1 DEF Lent, Filled


-----------------------------------------------------------------------------
(* The recording                                                             *)

LEMMA JobsAre ==
    ASSUME CpuInv
    PROVE  /\ job \in Nat /\ ran \in Nat /\ at \in Nat /\ MaxJobs \in Nat /\ Submitted \in Nat
           /\ Submitted <= job /\ job <= MaxJobs /\ ran <= Submitted
           /\ Len(Ops(job)) \in Nat /\ DOMAIN Ops(job) = 1 .. Len(Ops(job))
           /\ Len(List) \in Nat /\ DOMAIN List = 1 .. Len(List)
<1>1. MaxJobs \in Nat
    BY PositionsAre
<1>2. job \in Nat /\ job <= MaxJobs
    BY <1>1 DEF CpuInv
<1>3. Len(Ops(job)) \in Nat /\ DOMAIN Ops(job) = 1 .. Len(Ops(job))
    BY <1>2, ListLength
<1>4. at \in Nat
    BY <1>3 DEF CpuInv
<1>5. Submitted \in Nat /\ Submitted <= job
    BY <1>2, <1>4 DEF Submitted, CpuInv
<1>6. ran \in Nat /\ ran <= Submitted
    BY <1>5 DEF CpuInv
<1>7. Len(List) \in Nat /\ DOMAIN List = 1 .. Len(List)
    <2>1. ran + 1 \in Nat
        BY <1>6
    <2> QED
        BY <2>1, ListLength DEF List
<1> QED
    BY <1>1, <1>2, <1>3, <1>4, <1>5, <1>6, <1>7

\* What the operations on the heap are.
LEMMA HeapWrites ==
    ASSUME NEW j \in Nat, NEW p \in 1 .. Len(Ops(j)), NEW e, e = Ops(j)[p]
    PROVE  /\ e.layer \in Layers
           /\ e.do.op = "view" => e.do.slot \in {0, 1} /\ e.do.name \in Names
           /\ e.do.op = "copyView" =>
                /\ e.do.slot \in {1, LN2} /\ e.do.from \in Slots
                /\ e.do.slot = LN2 => /\ p > 1 /\ e.do.from = 0
                                      /\ Ops(j)[p - 1] = Put(e.layer, View(0, "X"))
<1>1. CASE IsToken(j)
    <2>1. Ops(j) = TokenList
        BY <1>1 DEF Ops
    <2>2. /\ e.layer \in Layers /\ e.do \in Operation
          /\ e.do.op = "copyView" /\ e.do.slot = LN2 =>
                /\ p > 1 /\ e.do.from = 0
                /\ TokenList[p - 1] = Put(e.layer, View(0, "X"))
        BY <2>1, TokenEntries
    <2>3. e.do.op = "view" => e.do.slot \in {0, 1} /\ e.do.name \in Names
        BY <2>2 DEF Operation
    <2>4. e.do.op = "copyView" => e.do.slot \in {1, LN2} /\ e.do.from \in Slots
        BY <2>2 DEF Operation
    <2> QED
        BY <2>1, <2>2, <2>3, <2>4
<1>2. CASE ~IsToken(j)
    <2>1. Ops(j) = LogitsList /\ Len(LogitsList) = 7
        BY <1>2, LogitsListIs DEF Ops
    <2>2. p = 1 \/ p = 2 \/ p = 3 \/ p = 4 \/ p = 5 \/ p = 6 \/ p = 7
        BY <2>1
    <2>3. e.layer \in Layers
        BY <2>1, <2>2, LogitsListIs, PutIs
    <2>4. e.do.op # "copyView"
        BY <2>1, <2>2, LogitsListIs, PutIs DEF View, Dispatch, UavBarrier, Transition, CopyLogits
    <2>5. e.do.op = "view" => e.do.slot \in {0, 1} /\ e.do.name \in Names
        BY <2>1, <2>2, LogitsListIs, NamesAre, PutIs DEF View, Dispatch, UavBarrier, Transition, CopyLogits
    <2> QED
        BY <2>3, <2>4, <2>5
<1> QED
    BY <1>1, <1>2

LEMMA GpuUntouched ==
    ASSUME PlaceInv, HeldInv, RowsInv, OrderInv, StateInv, UNCHANGED gpuVars
    PROVE  PlaceInv' /\ HeldInv' /\ RowsInv' /\ OrderInv' /\ StateInv'
<1>1. ran' = ran /\ gpuAt' = gpuAt /\ holds' = holds /\ rows' = rows /\ state' = state
      /\ unordered' = unordered
    BY DEF gpuVars
<1>2. List' = List /\ Pos' = Pos
    BY <1>1 DEF List, Pos
<1>3. PlaceInv'
    BY <1>1, <1>2 DEF PlaceInv
<1>4. HeldInv'
    BY <1>1, <1>2 DEF HeldInv
<1>5. RowsInv'
    BY <1>1, <1>2 DEF RowsInv, TokensRun, Passed
<1>6. OrderInv'
    BY <1>1, <1>2 DEF OrderInv, CurrentRes, Current
<1>7. StateInv'
    <2>1. LentNow' = LentNow /\ FilledNow' = FilledNow
        BY <1>1, <1>2 DEF LentNow, FilledNow
    <2>2. \A r : Settled(r)' <=> Settled(r)
        BY <1>1 DEF Settled
    <2> QED
        BY <1>1, <2>1, <2>2 DEF StateInv
<1> QED
    BY <1>3, <1>4, <1>5, <1>6, <1>7

LEMMA CpuSteps ==
    ASSUME Inv, CpuStep
    PROVE  CpuInv' /\ HeapInv' /\ UNCHANGED gpuVars
<1>0. CpuInv /\ HeapInv
    BY DEF Inv
<1>1. /\ job \in Nat /\ ran \in Nat /\ at \in Nat /\ MaxJobs \in Nat /\ Submitted \in Nat
      /\ Submitted <= job /\ job <= MaxJobs /\ ran <= Submitted
      /\ Len(Ops(job)) \in Nat /\ DOMAIN Ops(job) = 1 .. Len(Ops(job))
    BY <1>0, JobsAre
<1>2. LN2 = 13 /\ Slots = 0 .. 22
    BY WindowIs DEF LN2
<1>3. CASE BeginList
    <2>1. at = 0 /\ job < MaxJobs /\ job' = job + 1 /\ at' = 1 /\ heap' = heap /\ UNCHANGED gpuVars
          /\ ran' = ran
        BY <1>3 DEF BeginList, gpuVars
    <2>2. Len(Ops(job')) \in Nat /\ Len(Ops(job')) >= 7
        <3>1. job' \in Nat
            BY <1>1, <2>1
        <3> QED
            BY <3>1, ListLength
    <2>3. CpuInv'
        <3>1. Submitted = job /\ Submitted' = job
            BY <1>1, <2>1 DEF Submitted
        <3> QED
            BY <1>1, <2>1, <2>2, <3>1 DEF CpuInv
    <2>4. HeapInv'
        <3>1. ~(Ops(job')[1].do.op = "copyView" /\ Ops(job')[1].do.slot = LN2)
            <4>1. 1 \in 1 .. Len(Ops(job')) /\ job' \in Nat
                BY <1>1, <2>1, <2>2
            <4> QED
                BY <4>1, HeapWrites
        <3> QED
            BY <1>0, <2>1, <3>1 DEF HeapInv, Recorded
    <2> QED
        BY <2>1, <2>3, <2>4
<1>4. ASSUME at \in 1 .. Len(Ops(job)), at' = at + 1, job' = job, ran' = ran,
             heap' \in [Layers -> [Slots -> Resources]],
             \A l \in Layers, s \in 2 .. 22 : heap'[l][s] = Res(Window[s + 1], l),
             Recorded = Put(Recorded.layer, View(0, "X")) =>
                heap'[Recorded.layer][0] = Res("X", Recorded.layer)
      PROVE  CpuInv' /\ HeapInv'
    <2>1. CpuInv'
        <3>1. Submitted' = Submitted
            BY <1>1, <1>4 DEF Submitted
        <3>2. at' \in 0 .. Len(Ops(job)) + 1 /\ job >= 1
            BY <1>0, <1>1, <1>4 DEF CpuInv
        <3> QED
            BY <1>0, <1>4, <3>1, <3>2 DEF CpuInv
    <2>2. ASSUME at' \in 1 .. Len(Ops(job)), Ops(job)[at'].do.op = "copyView",
                 Ops(job)[at'].do.slot = LN2
          PROVE  heap'[Ops(job)[at'].layer][0] = Res("X", Ops(job)[at'].layer)
        <3>1. Ops(job)[at' - 1] = Put(Ops(job)[at'].layer, View(0, "X"))
            BY <1>1, <2>2, HeapWrites
        <3>2. at' - 1 = at
            BY <1>1, <1>4
        <3>3. Recorded = Put(Ops(job)[at'].layer, View(0, "X"))
            BY <3>1, <3>2 DEF Recorded
        <3>4. Recorded.layer = Ops(job)[at'].layer
            BY <3>3, PutIs
        <3> QED
            BY <1>4, <3>3, <3>4
    <2>3. HeapInv'
        BY <1>4, <2>2 DEF HeapInv, Recorded
    <2> QED
        BY <2>1, <2>3
<1>5. ASSUME NEW kind, Recording(kind) PROVE at \in 1 .. Len(Ops(job)) /\ Recorded.do.op = kind
    BY <1>1, <1>5 DEF Recording, Recorded
<1>6. CASE WriteView
    <2>1. /\ at \in 1 .. Len(Ops(job)) /\ Recorded.do.op = "view" /\ UNCHANGED gpuVars
          /\ at' = at + 1 /\ job' = job /\ ran' = ran
          /\ heap' = [heap EXCEPT ![Recorded.layer][Recorded.do.slot] = Res(Recorded.do.name, Recorded.layer)]
        BY <1>5, <1>6 DEF WriteView, gpuVars, SetSlot
    <2>2. /\ Recorded.layer \in Layers /\ Recorded.do.slot \in {0, 1} /\ Recorded.do.name \in Names
        BY <1>1, <2>1, HeapWrites DEF Recorded
    <2>3. Res(Recorded.do.name, Recorded.layer) \in Resources
        BY <2>2, ResourcesAre
    <2>3a. heap \in [Layers -> [Slots -> Resources]]
        BY <1>0 DEF HeapInv
    <2>3b. heap' \in [Layers -> [Slots -> Resources]]
        BY <2>1, <2>2, <2>3, <2>3a
    <2>3c. ASSUME NEW l \in Layers, NEW s \in 2 .. 22 PROVE heap'[l][s] = Res(Window[s + 1], l)
        <3>1. heap[l][s] = Res(Window[s + 1], l)
            BY <1>0 DEF HeapInv
        <3>2. s # Recorded.do.slot /\ s \in Slots
            BY <1>2, <2>2
        <3>3. heap'[l][s] = heap[l][s]
            BY <2>1, <2>2, <2>3a, <3>2
        <3> QED
            BY <3>1, <3>3
    <2>4. /\ heap' \in [Layers -> [Slots -> Resources]]
          /\ \A l \in Layers, s \in 2 .. 22 : heap'[l][s] = Res(Window[s + 1], l)
        BY <2>3b, <2>3c
    <2>5. ASSUME Recorded = Put(Recorded.layer, View(0, "X"))
          PROVE  heap'[Recorded.layer][0] = Res("X", Recorded.layer)
        <3>1. Recorded.do = View(0, "X")
            BY <2>5, PutIs
        <3>2. Recorded.do.slot = 0 /\ Recorded.do.name = "X"
            BY <3>1 DEF View
        <3> QED
            BY <1>0, <1>2, <2>1, <2>2, <3>2 DEF HeapInv
    <2> QED
        BY <1>4, <2>1, <2>4, <2>5
<1>7. CASE CopyDescriptor
    <2>1. /\ at \in 1 .. Len(Ops(job)) /\ Recorded.do.op = "copyView" /\ UNCHANGED gpuVars
          /\ at' = at + 1 /\ job' = job /\ ran' = ran
          /\ heap' = [heap EXCEPT ![Recorded.layer][Recorded.do.slot] = heap[Recorded.layer][Recorded.do.from]]
        BY <1>5, <1>7 DEF CopyDescriptor, gpuVars, SetSlot
    <2>2. /\ Recorded.layer \in Layers /\ Recorded.do.slot \in {1, LN2} /\ Recorded.do.from \in Slots
          /\ Recorded.do.slot = LN2 => Recorded.do.from = 0
        BY <1>1, <2>1, HeapWrites DEF Recorded
    <2>3. heap[Recorded.layer][Recorded.do.from] \in Resources
        BY <1>0, <2>2 DEF HeapInv
    <2>4. Recorded.do.slot = LN2 =>
            heap[Recorded.layer][Recorded.do.from] = Res(Window[14], Recorded.layer)
        <3>1. Window[14] = "X"
            BY WindowIs
        <3> QED
            BY <1>0, <2>1, <2>2, <3>1 DEF HeapInv
    <2>5. heap' \in [Layers -> [Slots -> Resources]]
        BY <1>0, <1>2, <2>1, <2>2, <2>3 DEF HeapInv
    <2>6. ASSUME NEW l \in Layers, NEW s \in 2 .. 22 PROVE heap'[l][s] = Res(Window[s + 1], l)
        <3>1. heap[l][s] = Res(Window[s + 1], l) /\ heap \in [Layers -> [Slots -> Resources]]
            BY <1>0 DEF HeapInv
        <3>2. CASE l = Recorded.layer /\ s = Recorded.do.slot
            <4>1. s = 13 /\ s + 1 = 14
                BY <1>2, <2>2, <3>2
            <4>2. heap'[l][s] = heap[l][Recorded.do.from]
                <5>1. l = Recorded.layer /\ s = Recorded.do.slot /\ s \in Slots
                    BY <1>2, <3>2, <4>1
                <5>2. heap' = [heap EXCEPT ![l][s] = heap[l][Recorded.do.from]]
                    BY <2>1, <5>1
                <5> QED
                    BY <3>1, <5>1, <5>2
            <4> QED
                BY <1>2, <2>4, <3>2, <4>1, <4>2
        <3>3. CASE ~(l = Recorded.layer /\ s = Recorded.do.slot)
            BY <1>2, <2>1, <3>1, <3>3
        <3> QED
            BY <3>2, <3>3
    <2>7. Recorded # Put(Recorded.layer, View(0, "X"))
        BY <2>1, PutIs DEF View
    <2> QED
        BY <1>4, <2>1, <2>5, <2>6, <2>7
<1>8. CASE RecordCommand
    <2>1. /\ at \in 1 .. Len(Ops(job)) /\ ~OnCpu(Recorded) /\ UNCHANGED gpuVars
          /\ at' = at + 1 /\ job' = job /\ ran' = ran /\ heap' = heap
        BY <1>1, <1>8 DEF RecordCommand, gpuVars
    <2>2. Recorded # Put(Recorded.layer, View(0, "X"))
        BY <2>1, PutIs DEF View, OnCpu
    <2> QED
        BY <1>0, <1>4, <2>1, <2>2 DEF HeapInv
<1>9. CASE Submit
    <2>1. at = Len(Ops(job)) + 1 /\ at' = 0 /\ heap' = heap /\ job' = job /\ ran' = ran
          /\ UNCHANGED gpuVars
        BY <1>9 DEF Submit, gpuVars
    <2>2. Submitted' = job
        BY <2>1 DEF Submitted
    <2>3. CpuInv'
        BY <1>1, <2>1, <2>2 DEF CpuInv
    <2>4. HeapInv'
        BY <1>0, <2>1 DEF HeapInv
    <2> QED
        BY <2>1, <2>3, <2>4
<1> QED
    BY <1>3, <1>6, <1>7, <1>8, <1>9 DEF CpuStep


-----------------------------------------------------------------------------
(* The start of a list                                                       *)

LEMMA LogitsCommands ==
    /\ OnCpu(LogitsList[1]) /\ OnCpu(LogitsList[2])
    /\ \A p \in 3 .. 7 : ~OnCpu(LogitsList[p])
    /\ LogitsList[3].do.op = "dispatch" /\ LogitsList[3].layer = NLayers - 1
    /\ LogitsList[3].do.uav = UAV /\ LogitsList[3].do.kernel = "mm"
    /\ LogitsList[4].do.op = "uavBarrier"
    /\ LogitsList[5].do = Transition("logits", "uav", "copySrc") /\ LogitsList[5].layer = NLayers - 1
    /\ LogitsList[5].do.op = "transition"
    /\ LogitsList[6].do.op = "copyLogits"
    /\ LogitsList[7].do = Transition("logits", "copySrc", "uav") /\ LogitsList[7].layer = NLayers - 1
    /\ LogitsList[7].do.op = "transition"
<1>1. /\ LogitsList[1].do = View(0, "X") /\ LogitsList[2].do = View(1, "lmHead")
      /\ LogitsList[3].do = Dispatch("mm", 0, UAV, <<"X", "lmHead">>) /\ LogitsList[3].layer = NLayers - 1
      /\ LogitsList[4].do = UavBarrier("logits")
      /\ LogitsList[5].do = Transition("logits", "uav", "copySrc") /\ LogitsList[5].layer = NLayers - 1
      /\ LogitsList[6].do = CopyLogits
      /\ LogitsList[7].do = Transition("logits", "copySrc", "uav") /\ LogitsList[7].layer = NLayers - 1
    BY LogitsListIs, PutIs
<1>2. /\ LogitsList[1].do.op = "view" /\ LogitsList[2].do.op = "view"
      /\ LogitsList[3].do.op = "dispatch" /\ LogitsList[3].do.uav = UAV /\ LogitsList[3].do.kernel = "mm"
      /\ LogitsList[4].do.op = "uavBarrier" /\ LogitsList[5].do.op = "transition"
      /\ LogitsList[6].do.op = "copyLogits" /\ LogitsList[7].do.op = "transition"
    BY <1>1 DEF View, Dispatch, UavBarrier, Transition, CopyLogits
<1>3. OnCpu(LogitsList[1]) /\ OnCpu(LogitsList[2])
    BY <1>2 DEF OnCpu
<1>4. \A p \in 3 .. 7 : ~OnCpu(LogitsList[p])
    <2> TAKE p \in 3 .. 7
    <2>1. p = 3 \/ p = 4 \/ p = 5 \/ p = 6 \/ p = 7
        OBVIOUS
    <2> QED
        BY <1>2, <2>1 DEF OnCpu
<1> QED
    BY <1>1, <1>2, <1>3, <1>4

\* A token's list begins with its first operation, a list of logits behind its
\* two views; nothing is lent there.
LEMMA ListBegins ==
    ASSUME NEW j \in Nat, NEW k, k = NextCommand(j, 1)
    PROVE  /\ k \in 1 .. Len(Ops(j)) /\ ~OnCpu(Ops(j)[k])
           /\ IsToken(j) => k = 1 /\ Lent(Ops(j), k) = {} /\ Filled(Ops(j), k) = {}
           /\ ~IsToken(j) => k = 3
<1>1. Len(Ops(j)) \in Nat /\ Len(Ops(j)) >= 7
    BY ListLength
<1>2. CASE IsToken(j)
    <2>1. Ops(j) = TokenList
        BY <1>2 DEF Ops
    <2>2. ~OnCpu(Ops(j)[1])
        BY <2>1, TokenListIs, PutIs DEF OnCpu, Dispatch
    <2>3. 1 \in 1 .. Len(Ops(j))
        BY <1>1
    <2>4. k = 1
        BY <2>2, <2>3, NextIsCommand
    <2>5. Lent(Ops(j), 1) = {} /\ Filled(Ops(j), 1) = {}
        <3>1. \A g \in Int, l \in Layers, c \in Caches, f \in {"K", "V"} :
                Storing(Ops(j), g, l, c, f) => 1 \notin g + 1 .. g + 4
            BY DEF Storing
        <3> QED
            BY <3>1, NotLent
    <2> QED
        BY <1>2, <2>2, <2>3, <2>4, <2>5
<1>3. CASE ~IsToken(j)
    <2>1. Ops(j) = LogitsList /\ Len(Ops(j)) = 7
        BY <1>3, LogitsListIs DEF Ops
    <2>2. 1 \in 1 .. Len(Ops(j)) + 1
        BY <2>1
    <2>3. /\ k \in 1 .. 8 /\ (k <= 7 => ~OnCpu(LogitsList[k]))
          /\ \A m \in 1 .. k - 1 : OnCpu(LogitsList[m])
        <3>1. /\ k \in 1 .. Len(Ops(j)) + 1
              /\ k <= Len(Ops(j)) => ~OnCpu(Ops(j)[k])
              /\ \A m \in 1 .. k - 1 : OnCpu(Ops(j)[m])
            BY <2>2, NextCommandIs
        <3>2. Len(Ops(j)) + 1 = 8
            BY <2>1
        <3> QED
            BY <2>1, <3>1, <3>2
    <2>4. k # 1 /\ k # 2
        BY <2>3, LogitsCommands
    <2>5. CASE k > 3
        <3>1. 3 \in 1 .. k - 1 /\ 3 \in 3 .. 7
            BY <2>3, <2>5
        <3> QED
            BY <2>3, <3>1, LogitsCommands
    <2>6. k = 3
        BY <2>3, <2>4, <2>5
    <2>7. ~OnCpu(Ops(j)[3]) /\ 3 \in 1 .. Len(Ops(j))
        BY <2>1, LogitsCommands
    <2> QED
        BY <1>3, <2>6, <2>7
<1> QED
    BY <1>2, <1>3

LEMMA CacheNames ==
    ASSUME NEW r \in Resources
    PROVE  /\ r[1] \in Names
           /\ r[1] \in Caches => r \in Caches \X Layers /\ \E l \in Layers : r = <<r[1], l>>
           /\ InitialState(r) \in ResourceStates
<1>1. PICK n \in Names, l \in Layers : r = Res(n, l)
    BY DEF Resources
<1>2. r[1] = n
    BY <1>1, ResourcesAre
<1>3. n \in Caches => r = <<n, l>>
    BY <1>1, ResourcesAre
<1> QED
    BY <1>2, <1>3 DEF InitialState, ResourceStates

LEMMA InitInv == Init => Inv
<1> SUFFICES ASSUME Init PROVE Inv
    OBVIOUS
<1>1. job = 0 /\ at = 0 /\ ran = 0 /\ gpuAt = NextCommand(1, 1) /\ unordered = {}
    BY DEF Init
<1>2. List = Ops(1) /\ IsToken(ran + 1) /\ Pos = 0 /\ 1 \in Nat
    <2>1. ran + 1 = 1
        BY <1>1
    <2>2. IsToken(1)
        BY LayerRecordingAssumption DEF IsToken
    <2>3. SeqPos(1) = 0
        BY LayerRecordingAssumption DEF SeqPos
    <2> QED
        BY <2>1, <2>2, <2>3 DEF List, Pos
<1>3. /\ gpuAt \in 1 .. Len(List) /\ ~OnCpu(List[gpuAt]) /\ gpuAt = 1
      /\ Lent(List, gpuAt) = {} /\ Filled(List, gpuAt) = {}
    <2>1. IsToken(1)
        BY LayerRecordingAssumption DEF IsToken
    <2> QED
        <3> PICK j \in Nat : j = 1
            OBVIOUS
        <3> PICK k : k = NextCommand(j, 1)
            OBVIOUS
        <3>1. IsToken(j)
            BY <2>1
        <3>2. k \in 1 .. Len(Ops(j)) /\ ~OnCpu(Ops(j)[k])
            BY ListBegins
        <3>3. k = 1 /\ Lent(Ops(j), k) = {} /\ Filled(Ops(j), k) = {}
            BY <3>1, ListBegins
        <3>4. gpuAt = k /\ List = Ops(j)
            BY <1>1, <1>2
        <3> QED
            BY <3>2, <3>3, <3>4
<1>4. Len(List) \in Nat
    BY <1>2, ListLength
<1>5. CpuInv
    <2>1. MaxJobs \in Nat
        BY PositionsAre
    <2>2. Len(Ops(0)) \in Nat
        BY ListLength
    <2>3. Submitted = 0
        BY <1>1 DEF Submitted
    <2> QED
        BY <1>1, <2>1, <2>2, <2>3 DEF CpuInv
<1>6. HeapInv
    <2>1. heap = [l \in Layers |-> [s \in Slots |-> Res(Window[s + 1], l)]]
        BY DEF Init
    <2>2. ASSUME NEW l \in Layers, NEW s \in Slots PROVE Res(Window[s + 1], l) \in Resources
        <3>1. s + 1 \in DOMAIN Window
            BY WindowIs
        <3>2. Window[s + 1] \in Names
            BY <3>1 DEF Names
        <3> QED
            BY <3>2, ResourcesAre
    <2>3. heap \in [Layers -> [Slots -> Resources]]
        BY <2>1, <2>2
    <2>4. \A l \in Layers, s \in 2 .. 22 : heap[l][s] = Res(Window[s + 1], l)
        BY <2>1, WindowIs
    <2> QED
        BY <1>1, <2>3, <2>4 DEF HeapInv
<1>7. PlaceInv
    BY <1>3, <1>4 DEF PlaceInv
<1>8. HeldInv
    <2>1. holds = [r \in Resources |-> -1]
        BY DEF Init
    <2> QED
        BY <1>3, <2>1 DEF HeldInv
<1>9. rows = [c \in Caches \X Layers |-> [p \in Positions |-> -1]]
    BY DEF Init
<1>10. RowsInv
    <2>1. TokensRun = 0
        BY <1>2 DEF TokensRun
    <2>2. \A c, l : ~Passed(c, l)
        BY <1>3 DEF Passed
    <2>3. \A p \in Positions : ~(p < 0)
        BY DEF Positions
    <2>4. \A c \in Caches, l \in Layers, p \in Positions : rows[<<c, l>>][p] = -1
        BY <1>9
    <2>5. rows \in [Caches \X Layers -> [Positions -> Positions \cup {-1}]]
        BY <1>9
    <2> QED
        BY <2>1, <2>2, <2>3, <2>4, <2>5 DEF RowsInv
<1>11. OrderInv
    BY <1>1, <1>2 DEF OrderInv
<1>12. StateInv
    <2>1. state = [r \in Resources |-> InitialState(r)]
        BY DEF Init
    <2>2. LentNow = {} /\ FilledNow = {}
        BY <1>2, <1>3 DEF LentNow, FilledNow
    <2>3. ASSUME NEW r \in Resources PROVE Settled(r)
        <3>1. state[r] = InitialState(r)
            BY <2>1
        <3>2. r[1] \in Caches => state[r] = "uav" /\ \A p \in Positions : rows[r][p] = -1
            BY <1>9, <3>1, CacheNames DEF InitialState, Written
        <3> QED
            BY <3>1, <3>2 DEF Settled
    <2>4. state \in [Resources -> ResourceStates]
        BY <2>1, CacheNames
    <2> QED
        BY <2>2, <2>3, <2>4 DEF StateInv
<1> QED
    BY <1>5, <1>6, <1>7, <1>8, <1>10, <1>11, <1>12 DEF Inv


-----------------------------------------------------------------------------
(* What every command of the GPU has in common                               *)

LEMMA RunsMove ==
    ASSUME CpuInv, PlaceInv, NEW kind, Runs(kind), ran' = ran
    PROVE  /\ ran \in Nat /\ ran + 1 \in Nat /\ Len(List) \in Nat /\ DOMAIN List = 1 .. Len(List)
           /\ gpuAt \in 1 .. Len(List) /\ Current = List[gpuAt] /\ List[gpuAt].do.op = kind
           /\ ~OnCpu(List[gpuAt])
           /\ IsToken(ran + 1) => List = TokenList
           /\ ~IsToken(ran + 1) => List = LogitsList /\ gpuAt \in 3 .. 7 /\ Len(List) = 7
           /\ List' = List /\ Pos' = Pos /\ Pos \in Positions /\ Pos \in Nat
           /\ Follows(List, gpuAt, gpuAt') /\ gpuAt' \in Nat /\ gpuAt' > gpuAt
           /\ PlaceInv'
<1>1. /\ job \in Nat /\ ran \in Nat /\ at \in Nat /\ MaxJobs \in Nat /\ Submitted \in Nat
      /\ Submitted <= job /\ job <= MaxJobs /\ ran <= Submitted
      /\ Len(List) \in Nat /\ DOMAIN List = 1 .. Len(List)
    BY JobsAre
<1>2. /\ ran < Submitted /\ gpuAt \in 1 .. Len(List) /\ Current = List[gpuAt]
      /\ List[gpuAt].do.op = kind /\ gpuAt' = NextCommand(ran + 1, gpuAt + 1)
    BY <1>1 DEF Runs, Running, Current, List
<1>3. ~OnCpu(List[gpuAt])
    BY <1>2 DEF PlaceInv
<1>4. List' = List /\ Pos' = Pos
    BY DEF List, Pos
<1>5. Pos \in Positions /\ Pos \in Nat
    <2>1. ran \in 0 .. MaxJobs - 1
        BY <1>1, <1>2
    <2> QED
        BY <2>1, PositionsAre DEF Pos
<1>6. ran + 1 \in Nat
    BY <1>1
<1>7. /\ gpuAt' \in 1 .. Len(List) + 1 /\ gpuAt' >= gpuAt + 1
      /\ gpuAt' <= Len(List) => ~OnCpu(List[gpuAt'])
      /\ \A m \in gpuAt + 1 .. gpuAt' - 1 : OnCpu(List[m])
    <2> PICK k : k = NextCommand(ran + 1, gpuAt + 1)
        OBVIOUS
    <2>1. gpuAt + 1 \in 1 .. Len(Ops(ran + 1)) + 1
        BY <1>1, <1>2 DEF List
    <2>2. /\ k \in 1 .. Len(Ops(ran + 1)) + 1 /\ k >= gpuAt + 1
          /\ k <= Len(Ops(ran + 1)) => ~OnCpu(Ops(ran + 1)[k])
          /\ \A m \in gpuAt + 1 .. k - 1 : OnCpu(Ops(ran + 1)[m])
        BY <1>6, <2>1, NextCommandIs
    <2> QED
        BY <1>2, <2>2 DEF List
<1>8. Follows(List, gpuAt, gpuAt') /\ gpuAt' \in Nat /\ gpuAt' > gpuAt
    <2>1. gpuAt' \in gpuAt + 1 .. Len(List) + 1 /\ gpuAt' \in Nat /\ gpuAt' > gpuAt
        BY <1>1, <1>2, <1>7
    <2> QED
        BY <1>7, <2>1 DEF Follows
<1>9. PlaceInv'
    BY <1>4, <1>7 DEF PlaceInv
<1>10. IsToken(ran + 1) => List = TokenList
    BY DEF List, Ops
<1>11. ASSUME ~IsToken(ran + 1) PROVE List = LogitsList /\ gpuAt \in 3 .. 7 /\ Len(List) = 7
    <2>1. List = LogitsList /\ Len(List) = 7
        BY <1>11, LogitsListIs DEF List, Ops
    <2>2. gpuAt # 1 /\ gpuAt # 2
        BY <1>3, <2>1, LogitsCommands
    <2> QED
        BY <1>2, <2>1, <2>2
<1> QED
    BY <1>1, <1>2, <1>3, <1>4, <1>5, <1>6, <1>8, <1>9, <1>10, <1>11

LEMMA CpuUntouched ==
    ASSUME CpuInv, HeapInv, UNCHANGED cpuVars, ran' \in 0 .. Submitted
    PROVE  CpuInv' /\ HeapInv'
<1>1. heap' = heap /\ job' = job /\ at' = at
    BY DEF cpuVars
<1>2. Submitted' = Submitted
    BY <1>1 DEF Submitted
<1> QED
    BY <1>1, <1>2 DEF CpuInv, HeapInv, Recorded

\* A command behind the GPU's new place is one behind its old place or the one
\* it ran.
LEMMA Behind ==
    ASSUME NEW L, NEW n \in Nat, NEW p \in 1 .. n, NEW q \in Nat, Follows(L, p, q),
           NEW k \in 1 .. q - 1, ~OnCpu(L[k])
    PROVE  k \in 1 .. p - 1 \/ k = p
<1>1. CASE k > p
    <2>1. k \in p + 1 .. q - 1
        BY <1>1
    <2> QED
        BY <2>1 DEF Follows
<1> QED
    BY <1>1

LEMMA HeldKept ==
    ASSUME CpuInv, PlaceInv, HeldInv, NEW kind, Runs(kind), ran' = ran, kind # "dispatch",
           holds' = holds
    PROVE  HeldInv'
<1>1. /\ List' = List /\ Pos' = Pos /\ Len(List) \in Nat /\ gpuAt \in 1 .. Len(List)
      /\ gpuAt' \in Nat /\ Follows(List, gpuAt, gpuAt') /\ List[gpuAt].do.op = kind
    BY RunsMove
<1>2. ASSUME IsToken(ran + 1), NEW k \in 1 .. gpuAt' - 1, NEW l \in Layers, NEW name \in Names,
             Produces(List, k, l, name)
      PROVE  holds[Res(name, l)] = Pos
    <2>1. List[k].do.op = "dispatch"
        BY <1>2 DEF Produces
    <2>2. ~OnCpu(List[k])
        BY <2>1 DEF OnCpu
    <2>3. k \in 1 .. gpuAt - 1 \/ k = gpuAt
        BY <1>1, <2>2, Behind
    <2>4. k \in 1 .. gpuAt - 1
        BY <1>1, <2>1, <2>3
    <2> QED
        BY <1>2, <2>4 DEF HeldInv
<1>3. holds \in [Resources -> Positions \cup {-1}]
    BY DEF HeldInv
<1> QED
    BY <1>1, <1>2, <1>3 DEF HeldInv

LEMMA Further ==
    ASSUME NEW p \in Nat, p >= 1, NEW q \in Nat, q > p
    PROVE  1 .. p - 1 \subseteq 1 .. q - 1 /\ p \in 1 .. q - 1
OBVIOUS

\* A row counts as copied when the GPU has run its copy.
LEMMA PassedIs ==
    ASSUME CpuInv, PlaceInv, NEW kind, Runs(kind), ran' = ran, NEW c, NEW l
    PROVE  Passed(c, l)' <=>
             \/ Passed(c, l)
             \/ IsToken(ran + 1) /\ \E f \in {"K", "V"} : List[gpuAt] = Put(l, CopyRow(c, f))
<1>1. /\ List' = List /\ Len(List) \in Nat /\ gpuAt \in 1 .. Len(List)
      /\ gpuAt' \in Nat /\ gpuAt' > gpuAt /\ Follows(List, gpuAt, gpuAt')
    BY RunsMove
<1>2. ASSUME NEW k \in 1 .. gpuAt' - 1, NEW f \in {"K", "V"}, List[k] = Put(l, CopyRow(c, f))
      PROVE  k \in 1 .. gpuAt - 1 \/ k = gpuAt
    <2>1. ~OnCpu(List[k])
        BY <1>2, PutIs DEF OnCpu, CopyRow
    <2> QED
        BY <1>1, <2>1, Behind
<1>3. 1 .. gpuAt - 1 \subseteq 1 .. gpuAt' - 1 /\ gpuAt \in 1 .. gpuAt' - 1
    <2>1. gpuAt \in Nat /\ gpuAt >= 1
        BY <1>1
    <2> QED
        BY <1>1, <2>1, Further
<1> QED
    BY <1>1, <1>2, <1>3 DEF Passed

LEMMA RowsKept ==
    ASSUME CpuInv, PlaceInv, RowsInv, NEW kind, Runs(kind), ran' = ran, kind # "copyRow",
           rows' = rows
    PROVE  RowsInv'
<1>1. List[gpuAt].do.op = kind /\ Pos' = Pos
    BY RunsMove
<1>2. \A c, l : Passed(c, l)' <=> Passed(c, l)
    <2> TAKE c, l
    <2>1. \A f \in {"K", "V"} : List[gpuAt] # Put(l, CopyRow(c, f))
        BY <1>1, PutIs DEF CopyRow
    <2> QED
        BY <2>1, PassedIs
<1>3. TokensRun' = TokensRun
    BY <1>1 DEF TokensRun
<1> QED
    BY <1>2, <1>3 DEF RowsInv

\* The state of one buffer changes.
LEMMA StateMoves ==
    ASSUME StateInv, NEW x \in Resources, state' \in [Resources -> ResourceStates],
           \A r \in Resources : r # x =>
                /\ state'[r] = state[r]
                /\ r[1] \in Caches => rows'[r] = rows[r]
                /\ r \in LentNow' <=> r \in LentNow
                /\ r \in FilledNow' <=> r \in FilledNow,
           x \in LentNow' => state'[x] = "copySrc",
           x \in FilledNow' => state'[x] = "copyDst",
           x \notin LentNow' \cup FilledNow' => Settled(x)'
    PROVE  StateInv'
<1>1. ASSUME NEW r \in Resources, r # x
      PROVE  /\ r \in LentNow' => state'[r] = "copySrc"
             /\ r \in FilledNow' => state'[r] = "copyDst"
             /\ r \notin LentNow' \cup FilledNow' => Settled(r)'
    <2>1. /\ state'[r] = state[r] /\ (r[1] \in Caches => rows'[r] = rows[r])
          /\ (r \in LentNow' <=> r \in LentNow) /\ (r \in FilledNow' <=> r \in FilledNow)
        BY <1>1
    <2>2. Settled(r) => Settled(r)'
        BY <2>1 DEF Settled, InitialState
    <2> QED
        BY <2>1, <2>2 DEF StateInv
<1> QED
    BY <1>1 DEF StateInv

LEMMA StateKept ==
    ASSUME StateInv, state' = state, rows' = rows, LentNow' = LentNow, FilledNow' = FilledNow
    PROVE  StateInv'
<1>1. \A r : Settled(r)' <=> Settled(r)
    BY DEF Settled, InitialState
<1> QED
    BY <1>1 DEF StateInv

\* A command that is no part of a copy leaves nothing lent.
LEMMA NoneLent ==
    ASSUME CpuInv, PlaceInv, NEW kind, Runs(kind), ran' = ran, IsToken(ran + 1),
           kind \notin {"transition", "copyRow"}
    PROVE  LentNow = {} /\ FilledNow = {} /\ LentNow' = {} /\ FilledNow' = {}
<1>1. /\ List' = List /\ Len(List) \in Nat /\ gpuAt \in 1 .. Len(List)
      /\ Follows(List, gpuAt, gpuAt') /\ List[gpuAt].do.op = kind
    BY RunsMove
<1>2. ASSUME NEW g \in Int, NEW l, NEW c, NEW f, Storing(List, g, l, c, f) PROVE gpuAt \notin g .. g + 4
    BY <1>1, <1>2, StoringKinds
<1>3. LentNow = {} /\ FilledNow = {}
    <2>1. Lent(List, gpuAt) = {} /\ Filled(List, gpuAt) = {}
        <3>1. gpuAt \in Int
            BY <1>1
        <3>2. \A g \in Int, l \in Layers, c \in Caches, f \in {"K", "V"} :
                Storing(List, g, l, c, f) => gpuAt \notin g + 1 .. g + 4
            BY <1>2
        <3> QED
            BY <3>1, <3>2, NotLent
    <2> QED
        BY <2>1 DEF LentNow, FilledNow
<1>4. LentNow' = {} /\ FilledNow' = {}
    <2>1. Lent(List, gpuAt') = {} /\ Filled(List, gpuAt') = {}
        <3>1. \A g \in Int, l \in Layers, c \in Caches, f \in {"K", "V"} :
                Storing(List, g, l, c, f) => gpuAt \notin g .. g + 3
            BY <1>2
        <3> QED
            BY <1>1, <3>1, NothingLent
    <2>2. Lent(List, gpuAt)' = {} /\ Filled(List, gpuAt)' = {}
        BY <1>1, <2>1 DEF Lent, Filled
    <2> QED
        BY <1>1, <2>2 DEF LentNow, FilledNow
<1> QED
    BY <1>3, <1>4


-----------------------------------------------------------------------------
(* The GPU's commands, one by one                                            *)

\* The view a token's dispatch writes through is the one its barrier names.
LEMMA TargetIs ==
    ASSUME HeapInv, NEW p \in 1 .. Len(TokenList), Current = TokenList[p], Current.do.op = "dispatch"
    PROVE  /\ p + 1 \in 1 .. Len(TokenList) /\ ~OnCpu(TokenList[p + 1])
           /\ TokenList[p + 1].do.op = "uavBarrier"
           /\ TokenList[p + 1].do = UavBarrier(TokenList[p + 1].do.name)
           /\ TokenList[p + 1].layer = Current.layer
           /\ Target = Res(TokenList[p + 1].do.name, Current.layer)
           /\ Current.layer \in Layers /\ Target \in Resources
<1> PICK e : e = TokenList[p]
    OBVIOUS
<1> PICK a : a = e.do
    OBVIOUS
<1> PICK b : b = TokenList[p + 1].do
    OBVIOUS
<1>1. /\ e.layer \in Layers /\ p + 1 \in 1 .. Len(TokenList) /\ TokenList[p + 1].layer = e.layer
      /\ Fences(a, b)
    BY TokenEntries
<1> PICK s : s = a.uav + UavRegister(a.kernel)
    OBVIOUS
<1>2. s \in 2 .. 22 /\ b = UavBarrier(Window[s + 1])
    BY <1>1 DEF Fences
<1>3. b.op = "uavBarrier" /\ b.name = Window[s + 1]
    BY <1>2 DEF UavBarrier
<1>4. heap[e.layer][s] = Res(Window[s + 1], e.layer)
    BY <1>1, <1>2 DEF HeapInv
<1>5. Target = heap[e.layer][s]
    BY DEF Target
<1>6. heap \in [Layers -> [Slots -> Resources]] /\ s \in Slots
    <2>0. \A n \in 2 .. 22 : n \in Slots
        BY WindowIs
    <2>1. s \in Slots
        BY <1>2, <2>0, Zenon
    <2> QED
        BY <2>1 DEF HeapInv
<1>7. Target \in Resources
    BY <1>1, <1>5, <1>6
<1> QED
    BY <1>1, <1>2, <1>3, <1>4, <1>5, <1>7 DEF OnCpu

LEMMA LogitsTarget ==
    ASSUME HeapInv, Current = LogitsList[3]
    PROVE  Target \in Resources
<1>1. Current.layer = NLayers - 1 /\ Current.do.uav = 16 /\ Current.do.kernel = "mm"
    BY LogitsCommands DEF UAV
<1>2. Target = heap[NLayers - 1][16 + 0]
    BY <1>1 DEF Target, UavRegister
<1>3. 16 + 0 \in Slots /\ NLayers - 1 \in Layers
    BY WindowIs, LogitsListIs
<1> QED
    BY <1>2, <1>3 DEF HeapInv

\* Where a list of logits is at each kind of command.
LEMMA LogitsPlaces ==
    ASSUME NEW p \in 3 .. 7
    PROVE  /\ LogitsList[p].do.op = "dispatch" => p = 3
           /\ LogitsList[p].do.op = "uavBarrier" => p = 4
           /\ LogitsList[p].do.op = "copyLogits" => p = 6
           /\ LogitsList[p].do.op = "transition" => p \in {5, 7}
           /\ LogitsList[p].do.op # "copyRow"
<1>1. p = 3 \/ p = 4 \/ p = 5 \/ p = 6 \/ p = 7
    OBVIOUS
<1> QED
    BY <1>1, LogitsCommands

LEMMA Between ==
    ASSUME NEW p \in Nat, NEW q \in Nat, q > p + 1
    PROVE  p + 1 \in p + 1 .. q - 1
OBVIOUS

LEMMA LogitsMove ==
    ASSUME CpuInv, PlaceInv, NEW kind, Runs(kind), ran' = ran, ~IsToken(ran + 1)
    PROVE  gpuAt \in 3 .. 7 /\ gpuAt' = gpuAt + 1
<1>1. /\ List = LogitsList /\ gpuAt \in 3 .. 7 /\ Len(List) = 7 /\ gpuAt' \in Nat
      /\ Follows(List, gpuAt, gpuAt')
    BY RunsMove
<1>2. gpuAt' \in gpuAt + 1 .. 8 /\ \A m \in gpuAt + 1 .. gpuAt' - 1 : OnCpu(LogitsList[m])
    <2>1. Len(List) + 1 = 8
        BY <1>1
    <2> QED
        BY <1>1, <2>1 DEF Follows
<1>3. CASE gpuAt' > gpuAt + 1
    <2>0. gpuAt \in Nat
        BY <1>1
    <2>1. gpuAt + 1 \in gpuAt + 1 .. gpuAt' - 1
        BY <1>1, <1>3, <2>0, Between
    <2>1a. gpuAt + 1 \in 3 .. 7
        <3>1. gpuAt' <= 8
            BY <1>1, <1>2
        <3> QED
            BY <1>1, <1>3, <2>0, <3>1
    <2>2. ~OnCpu(LogitsList[gpuAt + 1])
        BY <2>1a, LogitsCommands
    <2> QED
        BY <1>2, <2>1, <2>2
<1> QED
    BY <1>1, <1>2, <1>3

LEMMA DispatchStep ==
    ASSUME Inv, RunDispatch
    PROVE  Inv'
<1>0. CpuInv /\ HeapInv /\ PlaceInv /\ HeldInv /\ RowsInv /\ OrderInv /\ StateInv
    BY DEF Inv
<1>1. /\ Runs("dispatch") /\ UNCHANGED cpuVars /\ ran' = ran /\ rows' = rows /\ state' = state
      /\ holds' = [holds EXCEPT ![Target] = Pos] /\ unordered' = unordered \cup {Target}
    BY DEF RunDispatch
<1>2. /\ ran \in Nat /\ ran + 1 \in Nat /\ Len(List) \in Nat /\ DOMAIN List = 1 .. Len(List)
      /\ gpuAt \in 1 .. Len(List) /\ Current = List[gpuAt] /\ List[gpuAt].do.op = "dispatch"
      /\ IsToken(ran + 1) => List = TokenList
      /\ ~IsToken(ran + 1) => List = LogitsList
      /\ List' = List /\ Pos' = Pos /\ Pos \in Positions
      /\ Follows(List, gpuAt, gpuAt') /\ gpuAt' \in Nat /\ PlaceInv'
    BY <1>0, <1>1, RunsMove
<1>3. CpuInv' /\ HeapInv'
    <2>1. ran' \in 0 .. Submitted
        BY <1>0, <1>1 DEF CpuInv
    <2> QED
        BY <1>0, <1>1, <2>1, CpuUntouched
<1>4. RowsInv'
    BY <1>0, <1>1, RowsKept
<1>5. CASE IsToken(ran + 1)
    <2>1. /\ gpuAt + 1 \in 1 .. Len(List) /\ ~OnCpu(List[gpuAt + 1])
          /\ List[gpuAt + 1].do.op = "uavBarrier" /\ List[gpuAt + 1].layer = Current.layer
          /\ List[gpuAt + 1].do = UavBarrier(List[gpuAt + 1].do.name)
          /\ Target = Res(List[gpuAt + 1].do.name, Current.layer)
          /\ Current.layer \in Layers /\ Target \in Resources
        BY <1>0, <1>2, <1>5, TargetIs
    <2>2. gpuAt' = gpuAt + 1
        <3>1. CASE gpuAt' > gpuAt + 1
            <4>1. gpuAt + 1 \in gpuAt + 1 .. gpuAt' - 1
                <5>1. gpuAt \in Nat
                    BY <1>2
                <5> QED
                    BY <1>2, <3>1, <5>1, Between
            <4> QED
                BY <1>2, <2>1, <4>1 DEF Follows
        <3> QED
            BY <1>2, <3>1 DEF Follows
    <2>3. HeldInv'
        <3>1. holds \in [Resources -> Positions \cup {-1}]
            BY <1>0 DEF HeldInv
        <3>2. holds' \in [Resources -> Positions \cup {-1}]
            BY <1>1, <1>2, <3>1
        <3>3. ASSUME NEW k \in 1 .. gpuAt' - 1, NEW l \in Layers, NEW name \in Names,
                     Produces(List, k, l, name)
              PROVE  holds'[Res(name, l)] = Pos
            <4>1. Res(name, l) \in Resources
                BY ResourcesAre
            <4>2. k \in 1 .. gpuAt - 1 \/ k = gpuAt
                BY <1>2, <2>2
            <4>3. CASE k \in 1 .. gpuAt - 1
                <5>1. holds[Res(name, l)] = Pos
                    BY <1>0, <1>5, <3>3, <4>3 DEF HeldInv
                <5> QED
                    BY <1>1, <3>1, <4>1, <5>1
            <4>4. CASE k = gpuAt
                <5>1. List[gpuAt].layer = l /\ List[gpuAt + 1] = Put(l, UavBarrier(name))
                    BY <3>3, <4>4 DEF Produces
                <5>2. List[gpuAt + 1].do.name = name
                    BY <5>1, PutIs DEF UavBarrier
                <5>3. Target = Res(name, l)
                    BY <1>2, <2>1, <5>1, <5>2
                <5> QED
                    BY <1>1, <3>1, <4>1, <5>3
            <4> QED
                BY <4>2, <4>3, <4>4
        <3> QED
            BY <1>2, <3>2, <3>3 DEF HeldInv
    <2>4. OrderInv'
        <3>1. unordered = {}
            BY <1>0, <1>2, <1>5 DEF OrderInv
        <3>2. unordered' = {Target}
            BY <1>1, <3>1
        <3>3. CurrentRes' = Target
            <4>1. Current' = List[gpuAt + 1]
                BY <1>1, <2>2 DEF Current, List
            <4>2. CurrentRes' = Res(Current'.do.name, Current'.layer)
                BY DEF CurrentRes, Res
            <4> QED
                BY <2>1, <4>1, <4>2
        <3>4. gpuAt' <= Len(List') /\ List'[gpuAt'].do.op = "uavBarrier"
            BY <1>2, <2>1, <2>2
        <3>5. IsToken(ran + 1)' /\ {Target} \subseteq Resources
            BY <1>1, <1>5, <2>1
        <3> QED
            BY <3>2, <3>3, <3>4, <3>5 DEF OrderInv
    <2>5. StateInv'
        <3>1. LentNow = {} /\ FilledNow = {} /\ LentNow' = {} /\ FilledNow' = {}
            BY <1>0, <1>1, <1>5, NoneLent
        <3> QED
            BY <1>0, <1>1, <3>1, StateKept
    <2> QED
        BY <1>2, <1>3, <1>4, <2>3, <2>4, <2>5 DEF Inv
<1>6. CASE ~IsToken(ran + 1)
    <2>1. gpuAt \in 3 .. 7 /\ gpuAt' = gpuAt + 1
        BY <1>0, <1>1, <1>6, LogitsMove
    <2>2. gpuAt = 3
        BY <1>2, <1>6, <2>1, LogitsPlaces
    <2>3. HeldInv'
        BY <1>0, <1>1, <1>2, <1>6 DEF HeldInv
    <2>4. OrderInv'
        <3>1. Target \in Resources
            BY <1>0, <1>2, <1>6, <2>2, LogitsTarget
        <3>2. gpuAt' = 4 /\ ~IsToken(ran + 1)'
            BY <1>1, <1>6, <2>1, <2>2
        <3> QED
            BY <1>0, <1>1, <3>1, <3>2 DEF OrderInv
    <2>5. StateInv'
        <3>1. LentNow = {} /\ FilledNow = {}
            BY <1>6, <2>2 DEF LentNow, FilledNow
        <3>2. LentNow' = {} /\ FilledNow' = {}
            BY <1>1, <1>6, <2>1, <2>2 DEF LentNow, FilledNow
        <3> QED
            BY <1>0, <1>1, <3>1, <3>2, StateKept
    <2> QED
        BY <1>2, <1>3, <1>4, <2>3, <2>4, <2>5 DEF Inv
<1> QED
    BY <1>5, <1>6

LEMMA UavBarrierStep ==
    ASSUME Inv, RunUavBarrier
    PROVE  Inv'
<1>0. CpuInv /\ HeapInv /\ PlaceInv /\ HeldInv /\ RowsInv /\ OrderInv /\ StateInv
    BY DEF Inv
<1>1. /\ Runs("uavBarrier") /\ UNCHANGED cpuVars /\ ran' = ran /\ rows' = rows /\ state' = state
      /\ holds' = holds /\ unordered' = unordered \ {CurrentRes}
    BY DEF RunUavBarrier
<1>2. /\ gpuAt \in 1 .. Len(List) /\ List[gpuAt].do.op = "uavBarrier" /\ Len(List) \in Nat
      /\ ~IsToken(ran + 1) => List = LogitsList
      /\ List' = List /\ gpuAt' \in Nat /\ PlaceInv'
    BY <1>0, <1>1, RunsMove
<1>3. CpuInv' /\ HeapInv'
    <2>1. ran' \in 0 .. Submitted
        BY <1>0, <1>1 DEF CpuInv
    <2> QED
        BY <1>0, <1>1, <2>1, CpuUntouched
<1>4. RowsInv'
    BY <1>0, <1>1, RowsKept
<1>5. HeldInv'
    BY <1>0, <1>1, HeldKept
<1>6. unordered \subseteq Resources /\ unordered' \subseteq Resources
    BY <1>0, <1>1 DEF OrderInv
<1>7. CASE IsToken(ran + 1)
    <2>1. unordered \subseteq {CurrentRes}
        BY <1>0, <1>2, <1>7 DEF OrderInv
    <2>2. unordered' = {}
        BY <1>1, <2>1
    <2>3. OrderInv'
        BY <1>1, <1>7, <2>2 DEF OrderInv
    <2>4. StateInv'
        <3>1. LentNow = {} /\ FilledNow = {} /\ LentNow' = {} /\ FilledNow' = {}
            BY <1>0, <1>1, <1>7, NoneLent
        <3> QED
            BY <1>0, <1>1, <3>1, StateKept
    <2> QED
        BY <1>2, <1>3, <1>4, <1>5, <2>3, <2>4 DEF Inv
<1>8. CASE ~IsToken(ran + 1)
    <2>1. gpuAt \in 3 .. 7 /\ gpuAt' = gpuAt + 1
        BY <1>0, <1>1, <1>8, LogitsMove
    <2>2. gpuAt = 4
        BY <1>2, <1>8, <2>1, LogitsPlaces
    <2>3. gpuAt' = 5 /\ ~IsToken(ran + 1)'
        BY <1>1, <1>8, <2>1, <2>2
    <2>4. OrderInv'
        BY <1>6, <2>3 DEF OrderInv
    <2>5. StateInv'
        <3>1. LentNow = {} /\ FilledNow = {}
            BY <1>8, <2>2 DEF LentNow, FilledNow
        <3>2. LentNow' = {} /\ FilledNow' = {}
            BY <2>3 DEF LentNow, FilledNow
        <3> QED
            BY <1>0, <1>1, <3>1, <3>2, StateKept
    <2> QED
        BY <1>2, <1>3, <1>4, <1>5, <2>4, <2>5 DEF Inv
<1> QED
    BY <1>7, <1>8

LEMMA CopyLogitsStep ==
    ASSUME Inv, RunCopyLogits
    PROVE  Inv'
<1>0. CpuInv /\ HeapInv /\ PlaceInv /\ HeldInv /\ RowsInv /\ OrderInv /\ StateInv
    BY DEF Inv
<1>1. /\ Runs("copyLogits") /\ UNCHANGED cpuVars /\ ran' = ran /\ rows' = rows /\ state' = state
      /\ holds' = holds /\ unordered' = unordered
    BY DEF RunCopyLogits
<1>2. /\ gpuAt \in 1 .. Len(List) /\ List[gpuAt].do.op = "copyLogits" /\ Len(List) \in Nat
      /\ ~IsToken(ran + 1) => List = LogitsList
      /\ IsToken(ran + 1) => List = TokenList
      /\ List' = List /\ gpuAt' \in Nat /\ PlaceInv'
    BY <1>0, <1>1, RunsMove
<1>3. ~IsToken(ran + 1)
    BY <1>2, TokenEntries
<1>4. CpuInv' /\ HeapInv'
    <2>1. ran' \in 0 .. Submitted
        BY <1>0, <1>1 DEF CpuInv
    <2> QED
        BY <1>0, <1>1, <2>1, CpuUntouched
<1>5. RowsInv' /\ HeldInv'
    BY <1>0, <1>1, RowsKept, HeldKept
<1>6. gpuAt = 6 /\ gpuAt' = 7 /\ ~IsToken(ran + 1)'
    <2>1. gpuAt \in 3 .. 7 /\ gpuAt' = gpuAt + 1
        BY <1>0, <1>1, <1>3, LogitsMove
    <2>2. gpuAt = 6
        BY <1>2, <1>3, <2>1, LogitsPlaces
    <2> QED
        BY <1>1, <1>3, <2>1, <2>2
<1>7. OrderInv'
    BY <1>0, <1>1, <1>6 DEF OrderInv
<1>8. StateInv'
    <2>1. LentNow' = LentNow /\ FilledNow' = FilledNow
        BY <1>3, <1>6 DEF LentNow, FilledNow
    <2> QED
        BY <1>0, <1>1, <2>1, StateKept
<1> QED
    BY <1>2, <1>4, <1>5, <1>7, <1>8 DEF Inv


LEMMA LentPrimed ==
    ASSUME NEW L, List' = L, NEW q, gpuAt' = q, IsToken(ran + 1)'
    PROVE  LentNow' = Lent(L, q) /\ FilledNow' = Filled(L, q)
<1>1. LentNow' = Lent(L, q)
    BY DEF LentNow, Lent, Storing
<1>2. FilledNow' = Filled(L, q)
    BY DEF FilledNow, Filled, Storing
<1> QED
    BY <1>1, <1>2

\* The five commands of a copy: what they name and what is lent around each.
Lending(lent, filled, lentNext, filledNext) ==
    LentNow = lent /\ FilledNow = filled /\ LentNow' = lentNext /\ FilledNow' = filledNext
StoreCommand(op, l, c, f) ==
    \/ op = Transition(f, "uav", "copySrc") /\ Lending({}, {}, {Res(f, l)}, {})
    \/ op = Transition(c, "srv", "copyDst") /\ Lending({Res(f, l)}, {}, {Res(f, l)}, {Res(c, l)})
    \/ op = CopyRow(c, f) /\ Lending({Res(f, l)}, {Res(c, l)}, {Res(f, l)}, {Res(c, l)})
    \/ op = Transition(f, "copySrc", "uav") /\ Lending({Res(f, l)}, {Res(c, l)}, {}, {Res(c, l)})
    \/ op = Transition(c, "copyDst", "srv") /\ Lending({}, {Res(c, l)}, {}, {})

LEMMA StoreStep ==
    ASSUME CpuInv, PlaceInv, NEW kind \in {"transition", "copyRow"}, Runs(kind), ran' = ran,
           IsToken(ran + 1)
    PROVE  \E l \in Layers, c \in Caches, f \in {"K", "V"} :
              List[gpuAt] = Put(l, Current.do) /\ StoreCommand(Current.do, l, c, f)
<1>1. /\ gpuAt \in 1 .. Len(List) /\ List = TokenList /\ List[gpuAt].do.op = kind
      /\ Current = List[gpuAt] /\ Len(List) \in Nat
      /\ List' = List /\ Follows(List, gpuAt, gpuAt') /\ gpuAt' \in Nat
    BY RunsMove
<1> PICK L, p, q, e : L = List /\ p = gpuAt /\ q = gpuAt' /\ e = L[p]
    OBVIOUS
<1>2. /\ L = TokenList /\ p \in 1 .. Len(L) /\ Len(L) \in Nat /\ Follows(L, p, q)
      /\ e.do.op \in {"transition", "copyRow"} /\ Current = e
    BY <1>1
<1>3. e.layer \in Layers /\ \E g \in 1 .. Len(L), c \in Caches, f \in {"K", "V"} :
            p \in g .. g + 4 /\ Storing(L, g, e.layer, c, f)
    BY <1>2, TokenEntries
<1> PICK l \in Layers : l = e.layer
    BY <1>3
<1>4. PICK g \in 1 .. Len(L), c \in Caches, f \in {"K", "V"} :
            p \in g .. g + 4 /\ Storing(L, g, l, c, f)
    BY <1>3
<1>5. g \in Nat /\ g \in Int /\ p \in Nat /\ p \in Int
    BY <1>2
<1>6. /\ p = g => e.do = Transition(f, "uav", "copySrc")
      /\ p = g + 1 => e.do = Transition(c, "srv", "copyDst")
      /\ p = g + 2 => e.do = CopyRow(c, f)
      /\ p = g + 3 => e.do = Transition(f, "copySrc", "uav")
      /\ p = g + 4 => e.do = Transition(c, "copyDst", "srv")
    BY <1>4, <1>5, StoringKinds
<1>7. Lends(L, g, l, c, f, p)
    BY <1>4, <1>5, LentIs, Zenon
<1>8. ASSUME p \in g .. g + 3
      PROVE  q = p + 1 /\ Lends(L, g, l, c, f, q)
    <2>1. q = p + 1
        BY <1>2, <1>4, <1>5, <1>8, StoreMoves
    <2>2. q \in g .. g + 4
        BY <1>5, <1>8, <2>1
    <2>3. Lends(L, g, l, c, f, q)
        BY <1>4, <1>5, <2>2, LentIs, Zenon
    <2> QED
        BY <2>1, <2>3
<1>9. ASSUME p = g + 4 PROVE Lent(L, q) = {} /\ Filled(L, q) = {}
    <2>1. ASSUME NEW h \in Int, NEW m \in Layers, NEW d \in Caches, NEW b \in {"K", "V"},
                 Storing(L, h, m, d, b), p \in h .. h + 3
          PROVE  FALSE
        <3>1. p \in h .. h + 4
            BY <2>1
        <3>2. g = h
            BY <1>4, <1>5, <2>1, <3>1, StoringUnique
        <3> QED
            BY <1>5, <1>9, <2>1, <3>2
    <2> QED
        BY <1>2, <2>1, NothingLent
<1>10. LentNow = Lent(L, p) /\ FilledNow = Filled(L, p)
    BY DEF LentNow, FilledNow
<1>11. LentNow' = Lent(L, q) /\ FilledNow' = Filled(L, q)
    <2>1. IsToken(ran + 1)' /\ List' = L /\ gpuAt' = q
        BY <1>1
    <2> QED
        BY <2>1, LentPrimed
<1>12. Lending(Lent(L, p), Filled(L, p), Lent(L, q), Filled(L, q))
    BY <1>10, <1>11 DEF Lending
<1>13. StoreCommand(e.do, l, c, f)
    <2>1. CASE p = g
        <3>1. /\ Lent(L, p) = {} /\ Filled(L, p) = {} /\ Lent(L, q) = {Res(f, l)} /\ Filled(L, q) = {}
            BY <1>5, <1>7, <1>8, <2>1 DEF Lends
        <3> QED
            BY <1>6, <1>12, <2>1, <3>1 DEF StoreCommand
    <2>2. CASE p = g + 1
        <3>1. /\ Lent(L, p) = {Res(f, l)} /\ Filled(L, p) = {}
              /\ Lent(L, q) = {Res(f, l)} /\ Filled(L, q) = {Res(c, l)}
            BY <1>5, <1>7, <1>8, <2>2 DEF Lends
        <3> QED
            BY <1>6, <1>12, <2>2, <3>1 DEF StoreCommand
    <2>3. CASE p = g + 2
        <3>1. /\ Lent(L, p) = {Res(f, l)} /\ Filled(L, p) = {Res(c, l)}
              /\ Lent(L, q) = {Res(f, l)} /\ Filled(L, q) = {Res(c, l)}
            BY <1>5, <1>7, <1>8, <2>3 DEF Lends
        <3> QED
            BY <1>6, <1>12, <2>3, <3>1 DEF StoreCommand
    <2>4. CASE p = g + 3
        <3>1. /\ Lent(L, p) = {Res(f, l)} /\ Filled(L, p) = {Res(c, l)}
              /\ Lent(L, q) = {} /\ Filled(L, q) = {Res(c, l)}
            BY <1>5, <1>7, <1>8, <2>4 DEF Lends
        <3> QED
            BY <1>6, <1>12, <2>4, <3>1 DEF StoreCommand
    <2>5. CASE p = g + 4
        <3>1. /\ Lent(L, p) = {} /\ Filled(L, p) = {Res(c, l)}
              /\ Lent(L, q) = {} /\ Filled(L, q) = {}
            BY <1>5, <1>7, <1>9, <2>5 DEF Lends
        <3> QED
            BY <1>6, <1>12, <2>5, <3>1 DEF StoreCommand
    <2> QED
        BY <1>4, <1>5, <2>1, <2>2, <2>3, <2>4, <2>5
<1>14. List[gpuAt] = Put(l, e.do) /\ Current = e
    <2>1. e \in Entry
        BY <1>2, TokenEntries
    <2> QED
        BY <1>2, <2>1 DEF Entry, Put
<1> QED
    BY <1>13, <1>14


LEMMA OperationNames ==
    /\ \A n, b, a : Transition(n, b, a).op = "transition" /\ Transition(n, b, a).name = n
                    /\ Transition(n, b, a).after = a /\ Transition(n, b, a).before = b
    /\ \A c, f : CopyRow(c, f).op = "copyRow" /\ CopyRow(c, f).name = c /\ CopyRow(c, f).from = f
BY DEF Transition, CopyRow

LEMMA StoreBuffers ==
    ASSUME NEW l \in Layers, NEW c \in Caches, NEW f \in {"K", "V"}
    PROVE  /\ Res(f, l) \in Resources /\ Res(c, l) \in Resources /\ Res(f, l) # Res(c, l)
           /\ Res(f, l)[1] \notin Caches /\ InitialState(Res(f, l)) = "uav"
           /\ Res(c, l)[1] \in Caches /\ Res(c, l) = <<c, l>>
<1>1. /\ f \in Names /\ f \notin Caches /\ c \in Names
      /\ Res(f, l)[1] = f /\ Res(c, l)[1] = c /\ Res(c, l) = <<c, l>>
    BY ResourcesAre
<1>2. InitialState(Res(f, l)) = "uav"
    BY <1>1 DEF InitialState, Written
<1> QED
    BY <1>1, <1>2, ResourcesAre

LEMMA CopyRowStep ==
    ASSUME Inv, RunCopyRow
    PROVE  Inv'
<1>0. CpuInv /\ HeapInv /\ PlaceInv /\ HeldInv /\ RowsInv /\ OrderInv /\ StateInv
    BY DEF Inv
<1>1. /\ Runs("copyRow") /\ UNCHANGED cpuVars /\ ran' = ran /\ state' = state
      /\ holds' = holds /\ unordered' = unordered
      /\ rows' = [rows EXCEPT ![CurrentRes][Pos] = holds[Res(Current.do.from, Current.layer)]]
    BY DEF RunCopyRow, RowOf
<1>2. /\ gpuAt \in 1 .. Len(List) /\ List[gpuAt].do.op = "copyRow" /\ Current = List[gpuAt]
      /\ ~IsToken(ran + 1) => List = LogitsList /\ gpuAt \in 3 .. 7
      /\ IsToken(ran + 1) => List = TokenList
      /\ List' = List /\ Pos' = Pos /\ Pos \in Positions /\ PlaceInv'
    BY <1>0, <1>1, RunsMove
<1>3. IsToken(ran + 1) /\ List = TokenList
    BY <1>2, LogitsPlaces
<1>4. CpuInv' /\ HeapInv'
    <2>1. ran' \in 0 .. Submitted
        BY <1>0, <1>1 DEF CpuInv
    <2> QED
        BY <1>0, <1>1, <2>1, CpuUntouched
<1>5. HeldInv'
    BY <1>0, <1>1, HeldKept
<1>6. PICK l \in Layers, c \in Caches, f \in {"K", "V"} :
            List[gpuAt] = Put(l, Current.do) /\ StoreCommand(Current.do, l, c, f)
    BY <1>0, <1>1, <1>3, StoreStep
<1>7. /\ Current.layer = l /\ Current.do = CopyRow(c, f)
      /\ Lending({Res(f, l)}, {Res(c, l)}, {Res(f, l)}, {Res(c, l)})
    BY <1>2, <1>6, PutIs, OperationNames DEF StoreCommand
<1>8. CurrentRes = <<c, l>> /\ Current.do.from = f
    BY <1>7, StoreBuffers, OperationNames DEF CurrentRes
<1>9. holds[Res(f, l)] = Pos
    <2>1. PICK k \in 1 .. gpuAt - 1 : Produces(List, k, l, f)
        BY <1>2, <1>3, <1>7, <1>8, TokenOrder
    <2>2. f \in Names
        BY ResourcesAre
    <2> QED
        BY <1>0, <1>3, <2>1, <2>2 DEF HeldInv
<1>10. rows' = [rows EXCEPT ![<<c, l>>][Pos] = Pos]
    BY <1>1, <1>7, <1>8, <1>9
<1>11. RowsInv'
    <2>1. rows \in [Caches \X Layers -> [Positions -> Positions \cup {-1}]]
        BY <1>0 DEF RowsInv
    <2>2. rows' \in [Caches \X Layers -> [Positions -> Positions \cup {-1}]]
        BY <1>2, <1>10, <2>1
    <2>3. TokensRun = Pos /\ TokensRun' = Pos
        BY <1>1, <1>2, <1>3 DEF TokensRun
    <2>4. ASSUME NEW d \in Caches, NEW m \in Layers, NEW p \in Positions
          PROVE  rows'[<<d, m>>][p] = IF p < Pos \/ (p = Pos /\ Passed(d, m)') THEN p ELSE -1
        <3>1. rows[<<d, m>>][p] = IF p < Pos \/ (p = Pos /\ Passed(d, m)) THEN p ELSE -1
            BY <1>0, <2>3 DEF RowsInv
        <3>2. CASE d = c /\ m = l
            <4>1. Passed(d, m)'
                <5>1. List[gpuAt] = Put(m, CopyRow(d, f))
                    BY <1>6, <1>7, <3>2
                <5> QED
                    BY <1>0, <1>1, <1>3, <5>1, PassedIs
            <4>2. rows'[<<d, m>>][p] = IF p = Pos THEN Pos ELSE rows[<<d, m>>][p]
                BY <1>10, <2>1, <3>2
            <4> QED
                BY <3>1, <4>1, <4>2
        <3>3. CASE ~(d = c /\ m = l)
            <4>1. \A b \in {"K", "V"} : List[gpuAt] # Put(m, CopyRow(d, b))
                BY <1>2, <1>7, <3>3, PutIs, OperationNames
            <4>2. Passed(d, m)' <=> Passed(d, m)
                BY <1>0, <1>1, <4>1, PassedIs
            <4>3. rows'[<<d, m>>] = rows[<<d, m>>]
                BY <1>10, <2>1, <3>3
            <4> QED
                BY <3>1, <4>2, <4>3
        <3> QED
            BY <3>2, <3>3
    <2> QED
        BY <2>2, <2>3, <2>4 DEF RowsInv
<1>12. OrderInv'
    <2>1. unordered = {}
        BY <1>0, <1>2, <1>3 DEF OrderInv
    <2> QED
        BY <1>1, <1>3, <2>1 DEF OrderInv
<1>13. StateInv'
    <2>1. /\ Res(c, l) \in Resources /\ Res(c, l)[1] \in Caches /\ Res(c, l) = <<c, l>>
          /\ Res(f, l) # Res(c, l)
        BY StoreBuffers
    <2>2. LentNow = {Res(f, l)} /\ FilledNow = {Res(c, l)} /\ LentNow' = {Res(f, l)} /\ FilledNow' = {Res(c, l)}
        BY <1>7 DEF Lending
    <2>3. state[Res(c, l)] = "copyDst" /\ state \in [Resources -> ResourceStates]
        BY <1>0, <2>1, <2>2 DEF StateInv
    <2>4. ASSUME NEW r \in Resources, r # Res(c, l), r[1] \in Caches PROVE rows'[r] = rows[r]
        <3>1. r \in Caches \X Layers
            BY <2>4, CacheNames
        <3> QED
            BY <1>0, <1>10, <2>1, <2>4, <3>1 DEF RowsInv
    <2> QED
        BY <1>0, <1>1, <2>1, <2>2, <2>3, <2>4, StateMoves
<1> QED
    BY <1>2, <1>4, <1>5, <1>11, <1>12, <1>13 DEF Inv

\* A transition of one buffer, x.
LEMMA TransitionMoves ==
    ASSUME StateInv, rows' = rows, NEW n, NEW before, NEW after \in ResourceStates, NEW l,
           Current.do = Transition(n, before, after), Current.layer = l,
           state' = [state EXCEPT ![CurrentRes] = Current.do.after],
           NEW x \in Resources, x = Res(n, l),
           NEW lent, NEW filled, NEW lentNext, NEW filledNext,
           Lending(lent, filled, lentNext, filledNext),
           \A r \in Resources : r # x =>
                (r \in lentNext <=> r \in lent) /\ (r \in filledNext <=> r \in filled),
           x \in lentNext => after = "copySrc",
           x \in filledNext => after = "copyDst",
           x \notin lentNext \cup filledNext =>
                /\ x[1] \in Caches => after = "srv"
                /\ x[1] \notin Caches => after = InitialState(x)
    PROVE  StateInv'
<1>1. CurrentRes = x /\ Current.do.after = after
    BY OperationNames DEF CurrentRes
<1>2. state \in [Resources -> ResourceStates]
    BY DEF StateInv
<1>3. /\ state' \in [Resources -> ResourceStates] /\ state'[x] = after
      /\ \A r \in Resources : r # x => state'[r] = state[r]
    BY <1>1, <1>2
<1>4. LentNow = lent /\ FilledNow = filled /\ LentNow' = lentNext /\ FilledNow' = filledNext
    BY DEF Lending
<1>5. x \notin LentNow' \cup FilledNow' => Settled(x)'
    BY <1>3, <1>4 DEF Settled, InitialState
<1> QED
    BY <1>3, <1>4, <1>5, StateMoves

LEMMA TransitionStep ==
    ASSUME Inv, RunTransition
    PROVE  Inv'
<1>0. CpuInv /\ HeapInv /\ PlaceInv /\ HeldInv /\ RowsInv /\ OrderInv /\ StateInv
    BY DEF Inv
<1>1. /\ Runs("transition") /\ UNCHANGED cpuVars /\ ran' = ran /\ rows' = rows
      /\ holds' = holds /\ unordered' = unordered
      /\ state' = [state EXCEPT ![CurrentRes] = Current.do.after]
    BY DEF RunTransition
<1>2. /\ gpuAt \in 1 .. Len(List) /\ List[gpuAt].do.op = "transition" /\ Current = List[gpuAt]
      /\ ~IsToken(ran + 1) => List = LogitsList /\ gpuAt \in 3 .. 7
      /\ IsToken(ran + 1) => List = TokenList
      /\ List' = List /\ gpuAt' \in Nat /\ gpuAt' > gpuAt /\ PlaceInv'
    BY <1>0, <1>1, RunsMove
<1>3. CpuInv' /\ HeapInv'
    <2>1. ran' \in 0 .. Submitted
        BY <1>0, <1>1 DEF CpuInv
    <2> QED
        BY <1>0, <1>1, <2>1, CpuUntouched
<1>4. HeldInv' /\ RowsInv'
    BY <1>0, <1>1, HeldKept, RowsKept
<1>5. OrderInv'
    <2>1. CASE IsToken(ran + 1)
        <3>1. unordered = {}
            BY <1>0, <1>2, <2>1 DEF OrderInv
        <3> QED
            BY <1>1, <2>1, <3>1 DEF OrderInv
    <2>2. CASE ~IsToken(ran + 1)
        <3>1. ~(gpuAt' <= 3) /\ unordered' \subseteq Resources /\ ~IsToken(ran + 1)'
            BY <1>0, <1>1, <1>2, <2>2 DEF OrderInv
        <3> QED
            BY <3>1 DEF OrderInv
    <2> QED
        BY <2>1, <2>2
<1>6. state \in [Resources -> ResourceStates]
    BY <1>0 DEF StateInv
<1>7. CASE IsToken(ran + 1)
    <2>1. PICK l \in Layers, c \in Caches, f \in {"K", "V"} :
            List[gpuAt] = Put(l, Current.do) /\ StoreCommand(Current.do, l, c, f)
        BY <1>0, <1>1, <1>7, StoreStep
    <2>2. Current.layer = l /\ Current.do.op = "transition"
        BY <1>2, <2>1, PutIs
    <2> PICK F, C : F = Res(f, l) /\ C = Res(c, l)
        OBVIOUS
    <2>3. /\ F \in Resources /\ C \in Resources /\ F # C /\ F[1] \notin Caches
          /\ InitialState(F) = "uav" /\ C[1] \in Caches
          /\ StoreCommand(Current.do, l, c, f)
        BY <2>1, StoreBuffers
    <2>4. ASSUME Current.do = Transition(f, "uav", "copySrc"), Lending({}, {}, {F}, {}) PROVE StateInv'
        <3>1. "copySrc" \in ResourceStates
            BY DEF ResourceStates
        <3> QED
            BY <1>0, <1>1, <2>2, <2>3, <2>4, <3>1, TransitionMoves
    <2>5. ASSUME Current.do = Transition(c, "srv", "copyDst"), Lending({F}, {}, {F}, {C}) PROVE StateInv'
        <3>1. "copyDst" \in ResourceStates
            BY DEF ResourceStates
        <3> QED
            BY <1>0, <1>1, <2>2, <2>3, <2>5, <3>1, TransitionMoves
    <2>6. ASSUME Current.do = Transition(f, "copySrc", "uav"), Lending({F}, {C}, {}, {C}) PROVE StateInv'
        <3>1. "uav" \in ResourceStates
            BY DEF ResourceStates
        <3> QED
            BY <1>0, <1>1, <2>2, <2>3, <2>6, <3>1, TransitionMoves
    <2>7. ASSUME Current.do = Transition(c, "copyDst", "srv"), Lending({}, {C}, {}, {}) PROVE StateInv'
        <3>1. "srv" \in ResourceStates
            BY DEF ResourceStates
        <3> QED
            BY <1>0, <1>1, <2>2, <2>3, <2>7, <3>1, TransitionMoves
    <2>8. Current.do # CopyRow(c, f)
        BY <2>2, OperationNames
    <2>9. StateInv'
        BY <2>3, <2>4, <2>5, <2>6, <2>7, <2>8 DEF StoreCommand
    <2> QED
        BY <1>2, <1>3, <1>4, <1>5, <2>9 DEF Inv
<1>8. CASE ~IsToken(ran + 1)
    <2>1. gpuAt \in {5, 7} /\ gpuAt' = gpuAt + 1 /\ ~IsToken(ran + 1)'
        BY <1>0, <1>1, <1>2, <1>8, LogitsMove, LogitsPlaces
    <2> PICK x : x = Res("logits", NLayers - 1)
        OBVIOUS
    <2>2. /\ x \in Resources /\ x[1] \notin Caches /\ InitialState(x) = "uav"
        <3>1. "logits" \in Names /\ x[1] = "logits"
            BY NamesAre, ResourcesAre
        <3> QED
            BY <3>1, LogitsListIs, ResourcesAre DEF InitialState, Written, Caches
    <2>3. FilledNow = {} /\ FilledNow' = {}
        BY <1>8, <2>1 DEF FilledNow
    <2>4. CASE gpuAt = 5
        <3>1. Current.do = Transition("logits", "uav", "copySrc") /\ Current.layer = NLayers - 1
            BY <1>2, <1>8, <2>4, LogitsCommands
        <3>2. "copySrc" \in ResourceStates
            BY DEF ResourceStates
        <3>3. LentNow = {}
            BY <1>8, <2>4 DEF LentNow
        <3>4. LentNow' = {x}
            <4>1. gpuAt' = 6
                BY <2>1, <2>4
            <4> QED
                BY <2>1, <4>1 DEF LentNow, Res
        <3>5. Lending({}, {}, {x}, {})
            BY <2>3, <3>3, <3>4 DEF Lending
        <3>6. StateInv'
            BY <1>0, <1>1, <2>2, <3>1, <3>2, <3>5, TransitionMoves
        <3> QED
            BY <1>2, <1>3, <1>4, <1>5, <3>6 DEF Inv
    <2>5. CASE gpuAt = 7
        <3>1. Current.do = Transition("logits", "copySrc", "uav") /\ Current.layer = NLayers - 1
            BY <1>2, <1>8, <2>5, LogitsCommands
        <3>2. "uav" \in ResourceStates
            BY DEF ResourceStates
        <3>3. LentNow = {x}
            BY <1>8, <2>5 DEF LentNow
        <3>4. LentNow' = {}
            <4>1. gpuAt' = 8
                BY <2>1, <2>5
            <4> QED
                BY <2>1, <4>1 DEF LentNow
        <3>5. Lending({x}, {}, {}, {})
            BY <2>3, <3>3, <3>4 DEF Lending
        <3>6. StateInv'
            BY <1>0, <1>1, <2>2, <3>1, <3>2, <3>5, TransitionMoves
        <3> QED
            BY <1>2, <1>3, <1>4, <1>5, <3>6 DEF Inv
    <2> QED
        BY <2>1, <2>4, <2>5
<1> QED
    BY <1>7, <1>8


LEMMA FinishStep ==
    ASSUME Inv, FinishList
    PROVE  Inv'
<1>0. CpuInv /\ HeapInv /\ PlaceInv /\ HeldInv /\ RowsInv /\ OrderInv /\ StateInv
    BY DEF Inv
<1>1. /\ ran < Submitted /\ UNCHANGED cpuVars /\ ran' = ran + 1 /\ gpuAt' = NextCommand(ran + 2, 1)
      /\ gpuAt = Len(List) + 1 /\ unordered' = {} /\ holds' = holds /\ rows' = rows /\ state' = state
    BY DEF FinishList, List
<1>2. ran \in Nat /\ Submitted \in Nat /\ Len(List) \in Nat /\ ran + 1 \in Nat /\ ran + 2 \in Nat
      /\ ran' + 1 = ran + 2
    BY <1>0, <1>1, JobsAre
<1>3. CpuInv' /\ HeapInv'
    <2>1. ran' \in 0 .. Submitted
        BY <1>1, <1>2
    <2> QED
        BY <1>0, <1>1, <2>1, CpuUntouched
<1> PICK j \in Nat : j = ran + 2
    BY <1>2
<1> PICK k : k = NextCommand(j, 1)
    OBVIOUS
<1>4. /\ k \in 1 .. Len(Ops(j)) /\ ~OnCpu(Ops(j)[k])
      /\ IsToken(j) => k = 1 /\ Lent(Ops(j), k) = {} /\ Filled(Ops(j), k) = {}
      /\ ~IsToken(j) => k = 3
    BY ListBegins
<1>5. gpuAt' = k /\ List' = Ops(j) /\ (IsToken(ran + 1)' <=> IsToken(j)) /\ Pos' = SeqPos(j)
    BY <1>1, <1>2 DEF List, Pos
<1>6. Len(Ops(j)) \in Nat
    BY ListLength
<1>7. PlaceInv'
    BY <1>4, <1>5, <1>6 DEF PlaceInv
<1>8. HeldInv'
    <2>1. holds' \in [Resources -> Positions \cup {-1}]
        BY <1>0, <1>1 DEF HeldInv
    <2>2. IsToken(ran + 1)' => gpuAt' = 1
        BY <1>4, <1>5
    <2> QED
        BY <2>1, <2>2 DEF HeldInv
<1>9. OrderInv'
    BY <1>1 DEF OrderInv
<1>10. RowsInv'
    <2>1. TokensRun = TokensUpTo(ran) /\ TokensRun' = TokensUpTo(ran + 1)
        BY <1>1 DEF TokensRun, TokensUpTo, Pos
    <2>2. /\ TokensRun' = IF IsToken(ran + 1) THEN TokensRun + 1 ELSE TokensRun
        BY <1>2, <2>1, PositionsAre
    <2>3. \A d, l : ~Passed(d, l)'
        BY <1>4, <1>5 DEF Passed
    <2>4. ASSUME NEW d \in Caches, NEW l \in Layers, IsToken(ran + 1) PROVE Passed(d, l)
        <3>1. List = TokenList
            BY <2>4 DEF List, Ops
        <3>2. PICK m \in 1 .. Len(TokenList), f \in {"K", "V"} : TokenList[m] = Put(l, CopyRow(d, f))
            BY TokenOrder
        <3>3. gpuAt - 1 = Len(TokenList)
            BY <1>1, <1>2, <3>1
        <3> QED
            BY <2>4, <3>1, <3>2, <3>3 DEF Passed
    <2>5. TokensRun \in Nat
        BY <1>2, <2>1, PositionsAre DEF TokensUpTo
    <2>6. ASSUME NEW d \in Caches, NEW l \in Layers, NEW p \in Positions
          PROVE  rows'[<<d, l>>][p] =
                    IF p < TokensRun' \/ (p = TokensRun' /\ Passed(d, l)') THEN p ELSE -1
        <3>1. rows[<<d, l>>][p] = IF p < TokensRun \/ (p = TokensRun /\ Passed(d, l)) THEN p ELSE -1
            BY <1>0 DEF RowsInv
        <3>2. p \in Nat
            BY PositionsAre
        <3>3. CASE IsToken(ran + 1)
            BY <1>1, <2>2, <2>3, <2>4, <2>5, <3>1, <3>2, <3>3
        <3>4. CASE ~IsToken(ran + 1)
            <4>1. ~Passed(d, l)
                BY <3>4 DEF Passed
            <4> QED
                BY <1>1, <2>2, <2>3, <3>1, <3>4, <4>1
        <3> QED
            BY <3>3, <3>4
    <2>7. rows' \in [Caches \X Layers -> [Positions -> Positions \cup {-1}]]
        BY <1>0, <1>1 DEF RowsInv
    <2> QED
        BY <2>6, <2>7 DEF RowsInv
<1>11. StateInv'
    <2>1. LentNow = {} /\ FilledNow = {}
        <3>1. CASE IsToken(ran + 1)
            <4>1. gpuAt \in Int
                BY <1>1, <1>2
            <4>2. \A g \in Int, l \in Layers, c \in Caches, f \in {"K", "V"} :
                    Storing(List, g, l, c, f) => gpuAt \notin g + 1 .. g + 4
                BY <1>1, <1>2 DEF Storing
            <4>3. Lent(List, gpuAt) = {} /\ Filled(List, gpuAt) = {}
                BY <4>1, <4>2, NotLent
            <4> QED
                BY <3>1, <4>3 DEF LentNow, FilledNow
        <3>2. CASE ~IsToken(ran + 1)
            <4>1. gpuAt = 8
                <5>1. List = LogitsList
                    BY <3>2 DEF List, Ops
                <5>2. Len(List) = 7
                    BY <5>1, LogitsListIs
                <5> QED
                    BY <1>1, <5>2
            <4> QED
                BY <3>2, <4>1 DEF LentNow, FilledNow
        <3> QED
            BY <3>1, <3>2
    <2>2. LentNow' = {} /\ FilledNow' = {}
        <3>1. CASE IsToken(j)
            BY <1>4, <1>5, <3>1, LentPrimed
        <3>2. CASE ~IsToken(j)
            BY <1>4, <1>5, <3>2 DEF LentNow, FilledNow
        <3> QED
            BY <3>1, <3>2
    <2> QED
        BY <1>0, <1>1, <2>1, <2>2, StateKept
<1> QED
    BY <1>3, <1>7, <1>8, <1>9, <1>10, <1>11 DEF Inv

LEMMA NextInv == Inv /\ [Next]_vars => Inv'
<1> SUFFICES ASSUME Inv, [Next]_vars PROVE Inv'
    OBVIOUS
<1>1. ASSUME CpuInv' /\ HeapInv', UNCHANGED gpuVars PROVE Inv'
    BY <1>1, GpuUntouched DEF Inv
<1>2. CASE CpuStep
    BY <1>1, <1>2, CpuSteps
<1>3. CASE RunDispatch
    BY <1>3, DispatchStep
<1>4. CASE RunUavBarrier
    BY <1>4, UavBarrierStep
<1>5. CASE RunTransition
    BY <1>5, TransitionStep
<1>6. CASE RunCopyRow
    BY <1>6, CopyRowStep
<1>7. CASE RunCopyLogits
    BY <1>7, CopyLogitsStep
<1>8. CASE FinishList
    BY <1>8, FinishStep
<1>9. CASE UNCHANGED vars
    <2>1. UNCHANGED cpuVars /\ UNCHANGED gpuVars /\ ran' = ran
        BY <1>9 DEF vars, cpuVars, gpuVars
    <2>2. ran' \in 0 .. Submitted
        BY <2>1 DEF Inv, CpuInv
    <2>3. CpuInv' /\ HeapInv'
        BY <2>1, <2>2, CpuUntouched DEF Inv
    <2> QED
        BY <1>1, <2>1, <2>3
<1> QED
    BY <1>2, <1>3, <1>4, <1>5, <1>6, <1>7, <1>8, <1>9 DEF Next, GpuStep

-----------------------------------------------------------------------------
(* What the invariant says of the command the GPU is about to run            *)

LEMMA NowIs ==
    ASSUME Inv, Running
    PROVE  /\ ran + 1 \in Nat /\ Len(List) \in Nat /\ gpuAt \in 1 .. Len(List) /\ gpuAt \in Nat
           /\ Current = List[gpuAt]
           /\ IsToken(ran + 1) => List = TokenList
           /\ ~IsToken(ran + 1) => List = LogitsList /\ gpuAt \in 3 .. 7
           /\ Pos \in Positions /\ Pos \in Nat
<1>0. CpuInv /\ PlaceInv
    BY DEF Inv
<1>1. /\ job \in Nat /\ ran \in Nat /\ MaxJobs \in Nat /\ Submitted \in Nat
      /\ Submitted <= job /\ job <= MaxJobs
      /\ Len(List) \in Nat /\ DOMAIN List = 1 .. Len(List)
    BY <1>0, JobsAre
<1>2. ran < Submitted /\ gpuAt \in 1 .. Len(List) /\ Current = List[gpuAt]
    BY <1>1 DEF Running, Current, List
<1>3. Pos \in Positions /\ Pos \in Nat
    <2>1. ran \in 0 .. MaxJobs - 1
        BY <1>1, <1>2
    <2> QED
        BY <2>1, PositionsAre DEF Pos
<1>4. IsToken(ran + 1) => List = TokenList
    BY DEF List, Ops
<1>5. ASSUME ~IsToken(ran + 1) PROVE List = LogitsList /\ gpuAt \in 3 .. 7
    <2>1. List = LogitsList /\ Len(List) = 7
        BY <1>5, LogitsListIs DEF List, Ops
    <2>2. ~OnCpu(List[gpuAt])
        BY <1>0, <1>2 DEF PlaceInv
    <2>3. gpuAt # 1 /\ gpuAt # 2
        BY <2>1, <2>2, LogitsCommands
    <2> QED
        BY <1>2, <2>1, <2>3
<1> QED
    BY <1>1, <1>2, <1>3, <1>4, <1>5

\* Attention and LayerNorm run in tokens' lists.
LEMMA TokenKernels ==
    ASSUME Inv, NEW kernel \in {"ln", "attn"}, Now(kernel)
    PROVE  /\ Running /\ IsToken(ran + 1) /\ List = TokenList /\ gpuAt \in 1 .. Len(TokenList)
           /\ Current = TokenList[gpuAt] /\ Current.do.op = "dispatch" /\ Current.do.kernel = kernel
           /\ Current.layer \in Layers /\ gpuAt > 2
<1>1. Running /\ Current.do.op = "dispatch" /\ Current.do.kernel = kernel
    BY DEF Now
<1>2. /\ gpuAt \in 1 .. Len(List) /\ Current = List[gpuAt]
      /\ IsToken(ran + 1) => List = TokenList
      /\ ~IsToken(ran + 1) => List = LogitsList /\ gpuAt \in 3 .. 7
    BY <1>1, NowIs
<1>3. CASE ~IsToken(ran + 1)
    <2>1. gpuAt = 3
        BY <1>1, <1>2, <1>3, LogitsPlaces
    <2>2. Current.do.kernel = "mm"
        BY <1>2, <1>3, <2>1, LogitsCommands
    <2> QED
        BY <1>1, <2>2
<1>4. CASE IsToken(ran + 1)
    <2>1. Current.layer \in Layers
        BY <1>2, <1>4, TokenEntries
    <2>2. gpuAt > 2
        BY <1>1, <1>2, <1>4, TokenOrder
    <2> QED
        BY <1>1, <1>2, <1>4, <2>1, <2>2
<1> QED
    BY <1>3, <1>4

\* A cache's rows are those of the tokens up to this one when it is read.
LEMMA AttendsRows ==
    ASSUME Inv, Now("attn"), NEW c \in Caches, NEW p \in Positions
    PROVE  rows[<<c, Current.layer>>][p] = (IF p <= Pos THEN p ELSE -1)
<1>1. /\ Running /\ IsToken(ran + 1) /\ List = TokenList /\ gpuAt \in 1 .. Len(TokenList)
      /\ Current = TokenList[gpuAt] /\ Current.do.op = "dispatch" /\ Current.do.kernel = "attn"
      /\ Current.layer \in Layers
    BY TokenKernels
<1>2. PICK k \in 1 .. gpuAt - 1, f \in {"K", "V"} : TokenList[k] = Put(Current.layer, CopyRow(c, f))
    BY <1>1, TokenOrder
<1>3. Passed(c, Current.layer)
    BY <1>1, <1>2 DEF Passed
<1>4. TokensRun = Pos
    BY <1>1 DEF TokensRun
<1>5. Pos \in Nat /\ p \in Nat
    BY <1>1, NowIs, PositionsAre
<1>6. rows[<<c, Current.layer>>][p] =
        IF p < Pos \/ (p = Pos /\ Passed(c, Current.layer)) THEN p ELSE -1
    BY <1>1, <1>4 DEF Inv, RowsInv
<1> QED
    BY <1>3, <1>5, <1>6

LEMMA InvRows == Inv => TokenRows
<1> SUFFICES ASSUME Inv PROVE TokenRows
    OBVIOUS
<1>1. RowsFresh
    BY AttendsRows DEF RowsFresh
<1>2. TokenFirst
    <2> SUFFICES ASSUME Now("ln"), Current.layer = 0 PROVE holds[Res("X", 0)] = Pos
        BY DEF TokenFirst
    <2>1. IsToken(ran + 1) /\ List = TokenList /\ gpuAt \in 1 .. Len(TokenList) /\ gpuAt > 2
        BY TokenKernels
    <2>2. Produces(List, 1, 0, "X") /\ 1 \in 1 .. gpuAt - 1
        BY <2>1, TokenLength, TokenOrder
    <2>3. 0 \in Layers /\ "X" \in Names
        BY EmbedIs, NamesAre
    <2> QED
        BY <2>1, <2>2, <2>3 DEF Inv, HeldInv
<1> QED
    BY <1>1, <1>2 DEF TokenRows

LEMMA InvWindows == Inv => WindowsHold
<1> SUFFICES ASSUME Inv PROVE WindowsHold
    OBVIOUS
<1>0. HeapInv
    BY DEF Inv
<1>1. ASSUME NEW kernel \in {"ln", "attn"}, Now(kernel)
      PROVE  /\ Current.layer \in Layers /\ Fences(Current.do, TokenList[gpuAt + 1].do)
             /\ Current.do.kernel = kernel
    <2>1. /\ gpuAt \in 1 .. Len(TokenList) /\ Current = TokenList[gpuAt] /\ Current.do.op = "dispatch"
          /\ Current.do.kernel = kernel
        BY <1>1, TokenKernels
    <2> QED
        BY <2>1, TokenEntries
<1>2. ASSUME Now("ln"), NEW i \in 0 .. 2
      PROVE  SourceOf(i) = Res(Current.do.src[i + 1], Current.layer)
    <2>1. Current.layer \in Layers /\ Fences(Current.do, TokenList[gpuAt + 1].do)
          /\ Current.do.kernel = "ln"
        BY <1>1, <1>2
    <2>2. Current.do.srv \in 2 .. 20 /\ Current.do.src[i + 1] = Window[Current.do.srv + i + 1]
        BY <2>1 DEF Fences
    <2> PICK s \in 2 .. 22 : s = Current.do.srv + i
        BY <2>2
    <2>3. heap[Current.layer][s] = Res(Window[s + 1], Current.layer)
        BY <1>0, <2>1 DEF HeapInv
    <2> QED
        BY <2>2, <2>3 DEF SourceOf
<1>3. ASSUME Now("attn")
      PROVE  SourceOf(8) = Res("Kcache", Current.layer) /\ SourceOf(9) = Res("Vcache", Current.layer)
    <2>1. Current.layer \in Layers /\ Current.do.srv = 0
        BY <1>1, <1>3 DEF Fences
    <2>2. 8 \in 2 .. 22 /\ 9 \in 2 .. 22 /\ 8 + 1 = 9 /\ 9 + 1 = 10
        OBVIOUS
    <2>3. Window[9] = "Kcache" /\ Window[10] = "Vcache"
        BY WindowIs
    <2>4. heap[Current.layer][8] = Res(Window[9], Current.layer)
          /\ heap[Current.layer][9] = Res(Window[10], Current.layer)
        BY <1>0, <2>1, <2>2 DEF HeapInv
    <2>5. SourceOf(8) = heap[Current.layer][8] /\ SourceOf(9) = heap[Current.layer][9]
        BY <2>1 DEF SourceOf
    <2> QED
        BY <2>3, <2>4, <2>5
<1>4. ASSUME Running, Current.do.op = "dispatch", IsToken(ran + 1)
      PROVE  Target = Res(Ops(ran + 1)[gpuAt + 1].do.name, Current.layer)
    <2>1. gpuAt \in 1 .. Len(TokenList) /\ Current = TokenList[gpuAt] /\ Ops(ran + 1) = TokenList
        BY <1>4, NowIs DEF List
    <2> QED
        BY <1>0, <1>4, <2>1, TargetIs
<1> QED
    BY <1>2, <1>3, <1>4 DEF WindowsHold


LEMMA NowNoneLent ==
    ASSUME Inv, Running, IsToken(ran + 1), Current.do.op \notin {"transition", "copyRow"}
    PROVE  LentNow = {} /\ FilledNow = {}
<1>1. gpuAt \in 1 .. Len(List) /\ gpuAt \in Nat /\ Current = List[gpuAt]
    BY NowIs
<1>2. ASSUME NEW g \in Int, NEW l, NEW c, NEW f, Storing(List, g, l, c, f) PROVE gpuAt \notin g .. g + 4
    BY <1>1, <1>2, StoringKinds
<1>3. Lent(List, gpuAt) = {} /\ Filled(List, gpuAt) = {}
    <2>1. gpuAt \in Int
        BY <1>1
    <2>2. \A g \in Int, l \in Layers, c \in Caches, f \in {"K", "V"} :
            Storing(List, g, l, c, f) => gpuAt \notin g + 1 .. g + 4
        BY <1>2
    <2> QED
        BY <2>1, <2>2, NotLent
<1> QED
    BY <1>3 DEF LentNow, FilledNow

\* Which transition of a copy is next, and what is lent before it.
StoreNext(op, l, c, f) ==
    \/ op = Transition(f, "uav", "copySrc") /\ LentNow = {} /\ FilledNow = {}
    \/ op = Transition(c, "srv", "copyDst") /\ LentNow = {Res(f, l)} /\ FilledNow = {}
    \/ op = Transition(f, "copySrc", "uav") /\ LentNow = {Res(f, l)}
    \/ op = Transition(c, "copyDst", "srv") /\ FilledNow = {Res(c, l)}

LEMMA StoreNow ==
    ASSUME Inv, Running, IsToken(ran + 1), Current.do.op = "transition"
    PROVE  \E l \in Layers, c \in Caches, f \in {"K", "V"} :
              Current.layer = l /\ StoreNext(Current.do, l, c, f)
<1>1. gpuAt \in 1 .. Len(TokenList) /\ gpuAt \in Nat /\ Current = TokenList[gpuAt] /\ List = TokenList
    BY NowIs
<1> PICK p, e : p = gpuAt /\ e = TokenList[p]
    OBVIOUS
<1>2. p \in 1 .. Len(TokenList) /\ Current = e /\ e.do.op = "transition" /\ p \in Int
    BY <1>1
<1>3. e.layer \in Layers /\ \E g \in 1 .. Len(TokenList), c \in Caches, f \in {"K", "V"} :
            p \in g .. g + 4 /\ Storing(TokenList, g, e.layer, c, f)
    BY <1>2, TokenEntries
<1> PICK l \in Layers : l = e.layer
    BY <1>3
<1>4. PICK g \in 1 .. Len(TokenList), c \in Caches, f \in {"K", "V"} :
            p \in g .. g + 4 /\ Storing(TokenList, g, l, c, f)
    BY <1>3
<1>5. g \in Nat /\ g \in Int
    BY TokenLength
<1>6. /\ p = g => e.do = Transition(f, "uav", "copySrc")
      /\ p = g + 1 => e.do = Transition(c, "srv", "copyDst")
      /\ p = g + 2 => e.do = CopyRow(c, f)
      /\ p = g + 3 => e.do = Transition(f, "copySrc", "uav")
      /\ p = g + 4 => e.do = Transition(c, "copyDst", "srv")
    BY <1>4, <1>5, StoringKinds
<1>7. Lends(TokenList, g, l, c, f, p)
    BY <1>4, <1>5, LentIs, Zenon
<1>8. LentNow = Lent(TokenList, p) /\ FilledNow = Filled(TokenList, p)
    BY <1>1 DEF LentNow, FilledNow
<1>9. p # g + 2
    BY <1>2, <1>6, OperationNames
<1>10. StoreNext(e.do, l, c, f)
    <2>1. CASE p = g
        <3>1. Lent(TokenList, p) = {} /\ Filled(TokenList, p) = {}
            BY <1>5, <1>7, <2>1 DEF Lends
        <3> QED
            BY <1>6, <1>8, <2>1, <3>1 DEF StoreNext
    <2>2. CASE p = g + 1
        <3>1. Lent(TokenList, p) = {Res(f, l)} /\ Filled(TokenList, p) = {}
            BY <1>5, <1>7, <2>2 DEF Lends
        <3> QED
            BY <1>6, <1>8, <2>2, <3>1 DEF StoreNext
    <2>3. CASE p = g + 3
        <3>1. Lent(TokenList, p) = {Res(f, l)}
            BY <1>5, <1>7, <2>3 DEF Lends
        <3> QED
            BY <1>6, <1>8, <2>3, <3>1 DEF StoreNext
    <2>4. CASE p = g + 4
        <3>1. Filled(TokenList, p) = {Res(c, l)}
            BY <1>5, <1>7, <2>4 DEF Lends
        <3> QED
            BY <1>6, <1>8, <2>4, <3>1 DEF StoreNext
    <2> QED
        BY <1>4, <1>5, <1>9, <2>1, <2>2, <2>3, <2>4
<1> QED
    BY <1>2, <1>10

LEMMA InvStates == Inv => StatesAgree
<1> SUFFICES ASSUME Inv PROVE StatesAgree
    OBVIOUS
<1>0. StateInv
    BY DEF Inv
<1>1. ASSUME Now("attn"), NEW c \in Caches PROVE state[Res(c, Current.layer)] = "srv"
    <2>1. /\ Running /\ IsToken(ran + 1) /\ Current.do.op = "dispatch" /\ Current.layer \in Layers
        BY <1>1, TokenKernels
    <2> PICK r : r = Res(c, Current.layer)
        OBVIOUS
    <2>2. r \in Resources /\ r[1] \in Caches /\ r = <<c, Current.layer>>
        BY <2>1, ResourcesAre
    <2>3. LentNow = {} /\ FilledNow = {}
        BY <2>1, NowNoneLent
    <2>4. Settled(r)
        BY <1>0, <2>2, <2>3 DEF StateInv
    <2>5. Pos \in Positions /\ Pos \in Nat
        BY <2>1, NowIs
    <2>6. rows[r][Pos] = Pos
        BY <1>1, <2>2, <2>5, AttendsRows
    <2> QED
        BY <2>2, <2>4, <2>5, <2>6 DEF Settled
<1>2. ASSUME Running, Current.do.op = "transition"
      PROVE  \/ state[CurrentRes] = Current.do.before
             \/ Current.do.name \in Caches /\ \A p \in Positions : rows[CurrentRes][p] = -1
    <2>1. CASE IsToken(ran + 1)
        <3>1. PICK l \in Layers, c \in Caches, f \in {"K", "V"} :
                Current.layer = l /\ StoreNext(Current.do, l, c, f)
            BY <1>2, <2>1, StoreNow
        <3> PICK F, C : F = Res(f, l) /\ C = Res(c, l)
            OBVIOUS
        <3>2. /\ F \in Resources /\ C \in Resources /\ F # C /\ F[1] \notin Caches
              /\ InitialState(F) = "uav" /\ C[1] \in Caches
            BY StoreBuffers
        <3>3. CASE Current.do = Transition(f, "uav", "copySrc") /\ LentNow = {} /\ FilledNow = {}
            <4>1. CurrentRes = F /\ Current.do.before = "uav"
                BY <3>1, <3>3, OperationNames DEF CurrentRes
            <4>2. state[F] = "uav"
                BY <1>0, <3>2, <3>3 DEF StateInv, Settled
            <4> QED
                BY <4>1, <4>2
        <3>4. CASE Current.do = Transition(c, "srv", "copyDst") /\ LentNow = {F} /\ FilledNow = {}
            <4>1. CurrentRes = C /\ Current.do.before = "srv" /\ Current.do.name = c
                BY <3>1, <3>4, OperationNames DEF CurrentRes
            <4>2. Settled(C)
                BY <1>0, <3>2, <3>4 DEF StateInv
            <4> QED
                BY <3>2, <4>1, <4>2 DEF Settled
        <3>5. CASE Current.do = Transition(f, "copySrc", "uav") /\ LentNow = {F}
            <4>1. CurrentRes = F /\ Current.do.before = "copySrc"
                BY <3>1, <3>5, OperationNames DEF CurrentRes
            <4>2. state[F] = "copySrc"
                BY <1>0, <3>2, <3>5 DEF StateInv
            <4> QED
                BY <4>1, <4>2
        <3>6. CASE Current.do = Transition(c, "copyDst", "srv") /\ FilledNow = {C}
            <4>1. CurrentRes = C /\ Current.do.before = "copyDst"
                BY <3>1, <3>6, OperationNames DEF CurrentRes
            <4>2. state[C] = "copyDst"
                BY <1>0, <3>2, <3>6 DEF StateInv
            <4> QED
                BY <4>1, <4>2
        <3>7. StoreNext(Current.do, l, c, f)
            BY <3>1
        <3> QED
            BY <3>3, <3>4, <3>5, <3>6, <3>7 DEF StoreNext
    <2>2. CASE ~IsToken(ran + 1)
        <3>1. gpuAt \in 3 .. 7 /\ Current = LogitsList[gpuAt]
            BY <1>2, <2>2, NowIs
        <3>2. gpuAt = 5 \/ gpuAt = 7
            BY <1>2, <3>1, LogitsPlaces
        <3> PICK x : x = Res("logits", NLayers - 1)
            OBVIOUS
        <3>3. /\ x \in Resources /\ x[1] \notin Caches /\ InitialState(x) = "uav"
            <4>1. "logits" \in Names /\ x[1] = "logits"
                BY NamesAre, ResourcesAre
            <4> QED
                BY <4>1, LogitsListIs, ResourcesAre DEF InitialState, Written, Caches
        <3>4. CASE gpuAt = 5
            <4>1. Current.do = Transition("logits", "uav", "copySrc") /\ Current.layer = NLayers - 1
                BY <3>1, <3>4, LogitsCommands
            <4>2. CurrentRes = x /\ Current.do.before = "uav"
                BY <4>1, OperationNames DEF CurrentRes
            <4>3. LentNow = {} /\ FilledNow = {}
                BY <2>2, <3>4 DEF LentNow, FilledNow
            <4>4. state[x] = "uav"
                BY <1>0, <3>3, <4>3 DEF StateInv, Settled
            <4> QED
                BY <4>2, <4>4
        <3>5. CASE gpuAt = 7
            <4>1. Current.do = Transition("logits", "copySrc", "uav") /\ Current.layer = NLayers - 1
                BY <3>1, <3>5, LogitsCommands
            <4>2. CurrentRes = x /\ Current.do.before = "copySrc"
                BY <4>1, OperationNames DEF CurrentRes
            <4>3. LentNow = {x}
                BY <2>2, <3>5 DEF LentNow
            <4>4. state[x] = "copySrc"
                BY <1>0, <3>3, <4>3 DEF StateInv
            <4> QED
                BY <4>2, <4>4
        <3> QED
            BY <3>2, <3>4, <3>5
    <2> QED
        BY <2>1, <2>2
<1> QED
    BY <1>1, <1>2 DEF StatesAgree

LEMMA InvBarriers == Inv => BarriersHold
<1> SUFFICES ASSUME Inv PROVE BarriersHold
    OBVIOUS
<1>0. CpuInv /\ HeapInv /\ PlaceInv /\ HeldInv /\ RowsInv /\ OrderInv /\ StateInv
    BY DEF Inv
<1>1. TypeOK
    <2>1. /\ job \in Nat /\ ran \in Nat /\ at \in Nat /\ Len(Ops(job)) \in Nat /\ Len(List) \in Nat
        BY <1>0, JobsAre
    <2>2. Len(Ops(job)) <= Len(TokenList) /\ Len(TokenList) \in Nat
        BY <2>1, ListLength, TokenLength
    <2>3. Len(List) <= Len(TokenList)
        <3>1. ran + 1 \in Nat
            BY <2>1
        <3> QED
            BY <3>1, ListLength DEF List
    <2>4. at \in 0 .. Len(TokenList) + 1
        BY <1>0, <2>1, <2>2 DEF CpuInv
    <2>5. gpuAt \in 1 .. Len(TokenList) + 1
        BY <1>0, <2>1, <2>2, <2>3 DEF PlaceInv
    <2>6. job \in 0 .. MaxJobs /\ ran \in 0 .. Submitted
        BY <1>0 DEF CpuInv
    <2>7. heap \in [Layers -> [Slots -> Resources]]
        BY <1>0 DEF HeapInv
    <2>8. holds \in [Resources -> Positions \cup {-1}]
        BY <1>0 DEF HeldInv
    <2>9. rows \in [Caches \X Layers -> [Positions -> Positions \cup {-1}]]
        BY <1>0 DEF RowsInv
    <2>10. state \in [Resources -> {"uav", "srv", "copySrc", "copyDst"}]
        BY <1>0 DEF StateInv, ResourceStates
    <2>11. unordered \subseteq Resources
        BY <1>0 DEF OrderInv
    <2> QED
        BY <2>4, <2>5, <2>6, <2>7, <2>8, <2>9, <2>10, <2>11, Zenon DEF TypeOK
<1>2. ReadBehindBarrier
    <2>1. ASSUME Running, Current.do.op \in {"dispatch", "copyRow"} PROVE unordered = {}
        <3>1. /\ Current = List[gpuAt]
              /\ ~IsToken(ran + 1) => List = LogitsList /\ gpuAt \in 3 .. 7
            BY <2>1, NowIs
        <3>2. CASE IsToken(ran + 1)
            BY <1>0, <2>1, <3>1, <3>2 DEF OrderInv
        <3>3. CASE ~IsToken(ran + 1)
            <4>1. gpuAt = 3
                BY <2>1, <3>1, <3>3, LogitsPlaces
            <4> QED
                BY <1>0, <3>3, <4>1 DEF OrderInv
        <3> QED
            BY <3>2, <3>3
    <2> QED
        BY <2>1 DEF ReadBehindBarrier
<1> QED
    BY <1>1, <1>2, InvStates DEF BarriersHold

-----------------------------------------------------------------------------
(* The theorems                                                              *)

\* Whatever the CPU is recording meanwhile, every attention reads one row for
\* each token up to its own, in both caches of its layer, and the first layer
\* starts from this token's embedding (recordEmbed, recordTokenLayer).
THEOREM RowsAreFresh == Spec => []TokenRows
<1>1. Init => Inv
    BY InitInv
<1>2. Inv /\ [Next]_vars => Inv'
    BY NextInv
<1>3. Inv => TokenRows
    BY InvRows
<1> QED
    BY <1>1, <1>2, <1>3, PTL DEF Spec

\* The descriptors no one remaps name what buildDescriptors put there: every
\* LayerNorm and attention reads its layer's buffers, and every dispatch of a
\* token writes the buffer that its barrier waits for.
THEOREM WindowsAreKept == Spec => []WindowsHold
<1>1. Init => Inv
    BY InitInv
<1>2. Inv /\ [Next]_vars => Inv'
    BY NextInv
<1>3. Inv => WindowsHold
    BY InvWindows
<1> QED
    BY <1>1, <1>2, <1>3, PTL DEF Spec

\* Every transition names the state its buffer is in, the caches are readable
\* when an attention runs, and no command reads what a dispatch before it wrote
\* without a barrier between them.
THEOREM BarriersAreRight == Spec => []BarriersHold
<1>1. Init => Inv
    BY InitInv
<1>2. Inv /\ [Next]_vars => Inv'
    BY NextInv
<1>3. Inv => BarriersHold
    BY InvBarriers
<1> QED
    BY <1>1, <1>2, <1>3, PTL DEF Spec
=============================================================================
