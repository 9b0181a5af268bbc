------------------------------ MODULE MCContracts ------------------------------
(***************************************************************************)
(* Small instances of Contracts for TLC.  A session is a well-formed call at   *)
(* the edges of what each check tells apart, or one that deviates from a        *)
(* well-formed one in one tensor or one number.                                *)
(***************************************************************************)
EXTENDS Contracts

Dense(dtype, shape) == Contiguous(dtype, shape)

\* A tensor with one thing changed.
Deviants(x) ==
    LET n == Len(x.shape) IN
        {[x EXCEPT !.dtype = d] : d \in {"f32", "bf16", "i32", "fp8"} \ {x.dtype}}
        \cup {Dense(x.dtype, [x.shape EXCEPT ![i] = y]) :
                i \in 1..n, y \in {0} \cup {x.shape[j] + 1 : j \in 1..n}}
        \cup {[x EXCEPT !.strides[1] = @ + d] : d \in {1, 4}}
        \cup {[x EXCEPT !.strides[n] = 2]}

\* A call with one of its tensors changed.
Deviations(c, fields) ==
    UNION {{[c EXCEPT ![f] = x] : x \in Deviants(c[f])} : f \in {g \in fields : c[g] # NoTensor}}

\* A caller of the crate: the right output, one with dense rows, one without padding.
ByCrate(c) ==
    LET spec == LogicalSpec(LayoutOf(c)) IN
    {[c EXCEPT !.out = x] : x \in {spec, Dense(spec.dtype, spec.shape),
                                   Dense(spec.dtype, LayoutOf(c).allocation)}}

\* One tensor of a call does not start at a multiple of 16 bytes.
Narrowed(c) == {[c EXCEPT !.unaligned = {f}] : f \in Operands}

Alone(calls) == {<<c>> : c \in calls}

-----------------------------------------------------------------------------
Mqa(fp4, seq, heads, headDim, kv, maxK, clean, dtype, weights) ==
    LET dim == IF fp4 THEN headDim \div 2 ELSE headDim  x == Packed(fp4) IN
    [op |-> "mqa", q |-> Dense(x, <<seq, heads, dim>>),
     q_scale |-> IF fp4 THEN Dense("ue8m0", <<seq, heads>>) ELSE NoTensor,
     kv |-> Dense(x, <<kv, dim>>),
     kv_scale |-> Dense(IF fp4 THEN "ue8m0" ELSE "f32", <<kv>>),
     weights |-> Dense(weights, <<seq, heads>>),
     start |-> Dense("i32", <<seq>>), end |-> Dense("i32", <<seq>>),
     clean |-> clean, max_k |-> maxK, dtype |-> dtype, out |-> FromLayout, unaligned |-> {}]

MqaBase == {Mqa(fp4, 3, 32, 64, 100, 0, FALSE, dtype, "f32") :
                fp4 \in BOOLEAN, dtype \in {"f32", "bf16"}}
MqaCalls ==
    {Mqa(fp4, seq, heads, dim, kv, maxK, clean, dtype, weights) :
        fp4 \in BOOLEAN, seq \in {1, 5}, heads \in {1, 8, 32, 64}, dim \in {32, 128},
        kv \in {100, 256}, maxK \in {0, 300}, clean \in BOOLEAN,
        dtype \in {"f32", "bf16"}, weights \in {"f32", "bf16"}}
    \cup {Mqa(fp4, 16, heads, 64, 1, 256, FALSE, "f32", "f32") :
            fp4 \in BOOLEAN, heads \in {8, 16, 32, 64}}
    \cup {Mqa(FALSE, I32Max + 1, 32, 64, 1, 0, FALSE, "f32", "f32"),
          Mqa(FALSE, 1, 32, 64, I32Max - 3, 0, FALSE, "f32", "f32"),
          Mqa(FALSE, 1, 32, 64, I32Max - 2, 0, FALSE, "f32", "f32"),
          Mqa(FALSE, 1, 32, 64, 1, I32Max + 1, FALSE, "f32", "f32"),
          Mqa(FALSE, I32Max \div 32 + 1, 32, 64, 1, 0, FALSE, "f32", "f32"),
          Mqa(FALSE, I32Max \div 32 - 3, 32, 64, 1, 0, FALSE, "f32", "f32")}
    \cup UNION {ByCrate(c) : c \in MqaBase}
    \cup UNION {Deviations(c, {"q", "q_scale", "kv", "kv_scale", "weights", "start", "end"}) :
                c \in MqaBase}

-----------------------------------------------------------------------------
Plan(batch, nextN, indices, block, sms) ==
    [op |-> "plan", context_lens |-> Dense("i32", <<batch, nextN>>),
     indices |-> IF indices THEN Dense("i32", <<batch>>) ELSE NoTensor,
     block_kv |-> block, sms |-> sms, out |-> FromLayout, unaligned |-> {}]

PlanBase == {Plan(2, 1, indices, 64, 2) : indices \in BOOLEAN}
PlanCalls ==
    PlanBase \cup {Plan(batch, 1, FALSE, 64, Sms) : batch \in {29056, 29057, 58112, 58113, I32Max \div 8, I32Max \div 8 + 1}}
    \cup {Plan(2, nextN, indices, block, sms) :
            nextN \in {0, 1, 2}, indices \in BOOLEAN, block \in {32, 64, 128}, sms \in {0, Sms, Sms + 1}}
    \cup UNION {ByCrate(c) : c \in PlanBase}
    \cup UNION {Deviations(c, {"context_lens", "indices"}) : c \in PlanBase}

Paged(fp4, batch, nextN, heads, headDim, block, planBlock, len, indices, dtype, weights, meta) ==
    LET dim == IF fp4 THEN headDim \div 2 ELSE headDim IN
    [op |-> "paged", q |-> Dense(Packed(fp4), <<batch, nextN, heads, dim>>),
     q_scale |-> IF fp4 THEN Dense("ue8m0", <<batch, nextN, heads>>) ELSE NoTensor,
     cache |-> Dense("u8", <<3, block, 1, dim + 4>>),
     weights |-> Dense(weights, <<batch * nextN, heads>>),
     context_lens |-> Dense("i32", <<batch, nextN>>),
     block_table |-> Tensor("i32", <<batch, 5>>, <<8, 1>>),
     schedule_meta |-> meta,
     indices |-> IF indices THEN Dense("i32", <<batch>>) ELSE NoTensor,
     max_len |-> len, clean |-> FALSE, dtype |-> dtype, sms |-> 2,
     plan_block_kv |-> planBlock, out |-> FromLayout, unaligned |-> {}]

Meta == Dense("i32", <<3, 2>>)
PagedBase == {Paged(fp4, 2, 1, 32, 64, 64, 64, 100, FALSE, dtype, "f32", Meta) :
                fp4 \in BOOLEAN, dtype \in {"f32", "bf16"}}
PagedCalls ==
    UNION {Deviations(c, {"q", "q_scale", "cache", "weights", "context_lens", "block_table",
                          "schedule_meta"}) : c \in PagedBase}
    \cup UNION {ByCrate(c) : c \in PagedBase}
    \cup UNION {{[c EXCEPT !.clean = TRUE], [c EXCEPT !.max_len = 0],
                 [c EXCEPT !.max_len = I32Max + 1], [c EXCEPT !.sms = 0],
                 [c EXCEPT !.sms = Sms + 1, !.schedule_meta = Dense("i32", <<Sms + 2, 2>>)],
                 [c EXCEPT !.cache = Dense("u8", <<I32Max + 1, 64, 1, c.cache.shape[4]>>)],
                 [c EXCEPT !.block_table.strides = <<I32Max + 1, 1>>],
                 [c EXCEPT !.block_table.shape = <<2, 0>>],
                 [c EXCEPT !.out = LogicalSpec(LayoutOf(c)), !.plan_block_kv = 32]} :
                c \in PagedBase}
    \cup {Paged(FALSE, batch, 1, 32, 64, 64, 64, 1, FALSE, "f32", "f32", Meta) :
            batch \in {I32Max \div 32, I32Max \div 32 + 1}}

\* A plan and a launch that uses it: also with other page sizes, and varlen.
PlannedCalls ==
    {<<Plan(2, nextN, indices, block, 2),
       Paged(fp4, 2, nextN, heads, dim, cacheBlock, block, len, indices, dtype, weights, Returned(1))>> :
        nextN \in 1..3, indices \in BOOLEAN, block \in {32, 64}, cacheBlock \in {32, 64},
        fp4 \in BOOLEAN, heads \in {8, 64}, dim \in {32, 128}, len \in {1, 257},
        dtype \in {"f32", "bf16"}, weights \in {"f32", "bf16"}}

-----------------------------------------------------------------------------
Scale(mn, k, granMn, granK, dtype) ==
    [op |-> "scale", scale |-> Dense("f32", <<CeilDiv(mn, granMn), CeilDiv(k, granK)>>),
     mn |-> mn, k |-> k, gran_mn |-> granMn, gran_k |-> granK, dtype |-> dtype,
     out |-> FromLayout, unaligned |-> {}]

ScaleBase == {Scale(5, 640, 2, 128, dtype) : dtype \in {"f32", "ue8m0"}}
ScaleCalls ==
    {Scale(mn, k, granMn, granK, dtype) :
        mn \in {1, 3, 4, 130}, k \in {1, 128, 129, 640}, granMn \in {1, 2, 128},
        granK \in {32, 128}, dtype \in {"f32", "ue8m0"}}
    \cup {Scale(mn, k, granMn, 128, dtype) :
        mn \in {3}, k \in {65536, 65537}, granMn \in {1, 2}, dtype \in {"f32", "ue8m0"}}
    \cup {Scale(mn, 128, granMn, 128, "f32") :
        mn \in {I32Max + 1}, granMn \in {1, I32Max}}
    \cup {Scale(I32Max - 3, 128, 1, 128, "f32")}
    \cup {Scale(4100000, 65536, 128, 128, "f32")}
    \cup {[c EXCEPT !.gran_k = 0] : c \in ScaleBase} \cup {[c EXCEPT !.k = 0] : c \in ScaleBase}
    \cup {[c EXCEPT !.dtype = "bf16"] : c \in ScaleBase}
    \cup UNION {ByCrate(c) : c \in ScaleBase}
    \cup UNION {Deviations(c, {"scale"}) : c \in ScaleBase}

-----------------------------------------------------------------------------
(* GEMMs: with scales of their own, with scales prepared before, and raw *)

Gemm(m, n, k, sms, aScale, bScale) ==
    [op |-> "gemm", a |-> Dense("fp8", <<m, k>>), a_scale |-> aScale,
     b |-> Dense("fp8", <<n, k>>), b_scale |-> bScale, sms |-> sms, out |-> FromLayout,
     unaligned |-> {}]
Own(mn, k, dtype) == LogicalSpec(ScaleLayout(mn, k, 128, dtype))
Blockwise(n, k) == Dense("f32", <<CeilDiv(n, 128), CeilDiv(k, 128)>>)

\* One for each architecture.
OwnGemms(m, n, k, sms) ==
    {Gemm(m, n, k, sms, Own(m, k, "f32"), Blockwise(n, k)),
     Gemm(m, n, k, sms, Own(m, k, "ue8m0"), Own(n, k, "ue8m0"))}

\* Shapes around the edges of tiles, from one block to more than 132 SMs take in a wave,
\* and rows so long that their scales leave little shared memory, or none.
GemmCalls ==
    UNION {OwnGemms(m, n, k, sms) :
        m \in {1, 16, 17, 33, 65, 300, 1024}, n \in {8, 136, 2560}, k \in {128, 272, 640},
        sms \in {1, 2, 3, Sms}}
    \cup UNION {OwnGemms(4096, n, k, Sms) : n \in {2048, 2560}, k \in {128, 640}}
    \cup UNION {OwnGemms(m, n, 1000000, 1) : m \in {8, 256}, n \in {8, 128}}
    \cup UNION {OwnGemms(m, 8, k + d, sms) : m \in {8, 33}, k \in {DeepestK(8), DeepestK(33)},
                                          d \in {0, 16}, sms \in {1, 2}}

\* Two launches that differ in one number.
GemmPairs ==
    {<<c[1], c[2]>> : c \in UNION {OwnGemms(m, 136, 640, 2) \X OwnGemms(w[1], w[2], w[3], w[4]) :
        m \in {8, 100},
        w \in {<<16, 136, 640, 2>>, <<65, 136, 640, 2>>, <<300, 136, 640, 2>>,
                <<8, 136, 768, 2>>, <<8, 136, 65536, 2>>, <<100, 136, 65536, 2>>,
                <<8, 144, 640, 2>>, <<8, 136, 640, 1>>}}}

\* Scales prepared once and used by a launch: for the wrong rows, or not at all, or for
\* more rows than the kernel can be told.
PreparedCalls ==
    {<<Scale(m, k, 1, 128, "f32"), Scale(n, k, 128, 128, "f32"),
       Gemm(m, n, k, 2, Returned(1), Blockwise(n, k))>> :
        m \in {1, 5}, n \in {8, 12, 136}, k \in {16, 24, 200, 640}}
    \cup {<<Scale(mScale, k, 1, 128, dtype), Scale(n, k, granN, 128, dtype),
       Gemm(m, n, k, 2, Returned(1), Returned(2))>> :
            m \in {1, 5}, mScale \in {1, 5}, n \in {8, 136}, k \in {16, 24, 200, 640},
            granN \in {1, 128}, dtype \in {"f32", "ue8m0"}}
    \cup {<<Scale(m, 16, 1, 128, dtype), Scale(8, 16, 1, 128, dtype),
       Gemm(m, 8, 16, 4, Returned(1), IF dtype = "f32" THEN Blockwise(8, 16) ELSE Returned(2))>> :
            m \in {I32Max - 3, 2 * (I32Max + 1) + 8}, dtype \in {"f32", "ue8m0"}}

Raw(m, n, k, rows) ==
    [op |-> "raw_gemm", a |-> Dense("fp8", <<m, k>>), a_scale |-> Dense("f32", <<m, CeilDiv(k, 128)>>),
     b |-> Dense("fp8", <<n, k>>), b_scale |-> Dense("f32", <<rows, CeilDiv(k, 128)>>), sms |-> 2,
     unaligned |-> {}]

RawCalls ==
    {Raw(m, n, k, rows) : m \in {1, 5}, n \in {8, 12, 136}, k \in {16, 24, 128, 640},
                          rows \in {1, 2, 8, 136}}
    \cup {Raw(3, 8, k, rows) : k \in {65536, 65552}, rows \in {1, 8}}
    \cup {Raw(m, 8, 16, 1) : m \in {0, I32Max - 3, I32Max + 1}}
    \cup Deviations(Raw(5, 16, 640, 1), {"a", "a_scale", "b", "b_scale"})

\* Tensors that start anywhere, the client's own and those that earlier calls wrote.
NarrowedCalls ==
    Alone(UNION {Narrowed(c) :
            c \in MqaBase \cup PlanBase \cup PagedBase \cup ScaleBase \cup OwnGemms(5, 16, 640, 2)
                  \cup {Raw(5, 16, 640, 1), Raw(5, 16, 640, 16)}})
    \cup UNION {{<<s, Scale(16, 640, 128, 128, s.dtype),
                  Gemm(5, 16, 640, 2, Returned(1),
                       IF s.dtype = "f32" THEN Blockwise(16, 640) ELSE Returned(2))>> :
                s \in UNION {Narrowed(x) : x \in {c} \cup ByCrate(c)}} :
            c \in {Scale(5, 640, 1, 128, dtype) : dtype \in {"f32", "ue8m0"}}}
    \cup Alone(UNION {Narrowed(x) : x \in UNION {ByCrate(c) : c \in OwnGemms(5, 16, 640, 2)}})

\* Each kind of call, and a GEMM after a call that leaves results of its own behind.
MCSession ==
    Alone(MqaCalls) \cup Alone(PlanCalls) \cup Alone(PagedCalls) \cup PlannedCalls
    \cup Alone(ScaleCalls) \cup PreparedCalls \cup Alone(RawCalls)
    \cup Alone(GemmCalls) \cup GemmPairs \cup NarrowedCalls
    \cup {<<Plan(2, 1, FALSE, 64, 2), Raw(5, 16, 640, rows)>> : rows \in {1, 2, 16}}

=============================================================================
