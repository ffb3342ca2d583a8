--------------------------- MODULE RootPortProgram --------------------------
(***************************************************************************)
(* The accesses of dw_pcie_setup_rc, one by one: which of them reach which *)
(* register, and with which bits.  RootPort builds the list from the lists *)
(* of the functions it calls; the proofs about its steps need its entries. *)
(***************************************************************************)
EXTENDS RootPort, WordsProofs, IatuProofs, SequenceTheorems

-----------------------------------------------------------------------------
(***************************************************************************)
(* The program, access by access.                                          *)
(***************************************************************************)
Calls == [port : 0 .. 3, lane_num : {4, 8, 16}, order : 0 .. 3]

\* A sequence of n entries.
Sized(s, n) == \E S : s \in Seq(S) /\ Len(s) = n

LEMMA OneSized == \A x : Sized(<<x>>, 1)
<1> SUFFICES ASSUME NEW x PROVE Sized(<<x>>, 1)
  OBVIOUS
<1>1. <<x>> \in Seq({x}) /\ Len(<<x>>) = 1
  OBVIOUS
<1>2. QED
  BY <1>1 DEF Sized

LEMMA ThreeSized == \A x, y, z : Sized(<<x, y, z>>, 3)
<1> SUFFICES ASSUME NEW x, NEW y, NEW z PROVE Sized(<<x, y, z>>, 3)
  OBVIOUS
<1>1. <<x, y, z>> \in Seq({x, y, z}) /\ Len(<<x, y, z>>) = 3
  OBVIOUS
<1>2. QED
  BY <1>1 DEF Sized

LEMMA FiveSized == \A v, w, x, y, z : Sized(<<v, w, x, y, z>>, 5)
<1> SUFFICES ASSUME NEW v, NEW w, NEW x, NEW y, NEW z PROVE Sized(<<v, w, x, y, z>>, 5)
  OBVIOUS
<1>1. <<v, w, x, y, z>> \in Seq({v, w, x, y, z}) /\ Len(<<v, w, x, y, z>>) = 5
  OBVIOUS
<1>2. QED
  BY <1>1 DEF Sized

\* The entries of s after the first f begin with the n entries of t.
Part(s, f, t, n) == \A j \in 1 .. n : s[f + j] = t[j]

LEMMA AppendPart ==
  ASSUME NEW m \in Nat, NEW n \in Nat, NEW s, NEW t, Sized(s, m), Sized(t, n)
  PROVE  /\ Sized(s \o t, m + n)
         /\ Part(s \o t, 0, s, m)
         /\ Part(s \o t, m, t, n)
<1> DEFINE u == s \o t
<1>1. PICK S : s \in Seq(S) /\ Len(s) = m
  BY DEF Sized
<1>2. PICK T : t \in Seq(T) /\ Len(t) = n
  BY DEF Sized
<1> DEFINE V == S \cup T
<1>3. s \in Seq(V) /\ t \in Seq(V)
  <2>1. s \in [1 .. m -> S] /\ t \in [1 .. n -> T]
    BY <1>1, <1>2
  <2>2. s \in [1 .. m -> V] /\ t \in [1 .. n -> V]
    BY <2>1
  <2> HIDE DEF V
  <2>3. QED
    BY <2>2
<1> HIDE DEF V
<1>4. u \in Seq(V) /\ Len(u) = m + n
      /\ \A j \in 1 .. m + n : u[j] = IF j <= m THEN s[j] ELSE t[j - m]
  BY <1>1, <1>2, <1>3, ConcatProperties
<1> HIDE DEF u
<1>5. Sized(u, m + n)
  BY <1>4 DEF Sized
<1>6. \A j \in 1 .. m : u[0 + j] = s[j]
  <2> SUFFICES ASSUME NEW j \in 1 .. m PROVE u[0 + j] = s[j]
    OBVIOUS
  <2>1. 0 + j = j /\ j \in 1 .. m + n
    OBVIOUS
  <2>2. QED
    BY <1>4, <2>1
<1>7. \A j \in 1 .. n : u[m + j] = t[j]
  <2> SUFFICES ASSUME NEW j \in 1 .. n PROVE u[m + j] = t[j]
    OBVIOUS
  <2>1. m + j \in 1 .. m + n /\ ~(m + j <= m) /\ m + j - m = j
    OBVIOUS
  <2>2. QED
    BY <1>4, <2>1
<1>8. QED
  BY <1>5, <1>6, <1>7 DEF Part, u

LEMMA PartOfPart ==
  ASSUME NEW m \in Nat, NEW u, NEW s, Part(u, 0, s, m),
         NEW f \in Nat, NEW n \in Nat, NEW t, Part(s, f, t, n), f + n <= m
  PROVE  Part(u, f, t, n)
<1> SUFFICES ASSUME NEW j \in 1 .. n PROVE u[f + j] = t[j]
  BY DEF Part
<1>1. f + j \in 1 .. m /\ 0 + (f + j) = f + j
  OBVIOUS
<1>2. u[0 + (f + j)] = s[f + j]
  BY <1>1 DEF Part
<1>3. s[f + j] = t[j]
  BY DEF Part
<1>4. QED
  BY <1>1, <1>2, <1>3

-----------------------------------------------------------------------------
\* The eight writes of a region.
LEMMA AtuProgram ==
  ASSUME NEW k, NEW w
  PROVE  /\ Sized(dw_pcie_prog_outbound_atu(k, w), 8)
         /\ \A j \in 1 .. 7 : dw_pcie_prog_outbound_atu(k, w)[j]
                                = WriteAtu(k, AtuFields[j], Registers(w)[AtuFields[j]])
         /\ dw_pcie_prog_outbound_atu(k, w)[8] = WriteAtu(k, "enable", TRUE)
<1> DEFINE F(j) == WriteAtu(k, AtuFields[j], Registers(w)[AtuFields[j]])
           fields == [n \in 1 .. 7 |-> F(n)]
           last == <<WriteAtu(k, "enable", TRUE)>>
<1>1. dw_pcie_prog_outbound_atu(k, w) = fields \o last
  BY DEF dw_pcie_prog_outbound_atu
<1> HIDE DEF F
<1>2. Sized(fields, 7) /\ \A j \in 1 .. 7 : fields[j] = F(j)
  <2>1. fields \in [1 .. 7 -> {F(j) : j \in 1 .. 7}]
    OBVIOUS
  <2>2. fields \in Seq({F(j) : j \in 1 .. 7}) /\ Len(fields) = 7
    BY <2>1
  <2>3. QED
    BY <2>2 DEF Sized
<1>3. Sized(last, 1) /\ last[1] = WriteAtu(k, "enable", TRUE)
  BY OneSized
<1> DEFINE u == fields \o last
<1> HIDE DEF fields, last
<1>4. Sized(u, 7 + 1) /\ Part(u, 0, fields, 7) /\ Part(u, 7, last, 1)
  BY <1>2, <1>3, AppendPart
<1> HIDE DEF u
<1>5. Sized(u, 8)
  BY <1>4
<1>6. \A j \in 1 .. 7 : u[j] = F(j)
  <2> SUFFICES ASSUME NEW j \in 1 .. 7 PROVE u[j] = F(j)
    OBVIOUS
  <2>1. 0 + j = j
    OBVIOUS
  <2>2. QED
    BY <1>2, <1>4, <2>1 DEF Part
<1>7. u[8] = WriteAtu(k, "enable", TRUE)
  <2>1. u[7 + 1] = last[1] /\ 7 + 1 = 8
    BY <1>4 DEF Part
  <2>2. QED
    BY <1>3, <2>1
<1>8. QED
  BY <1>1, <1>5, <1>6, <1>7 DEF u, F

\* dw_pcie_setup, for any number of lanes and any place in the order.
LEMMA SetupProgram ==
  ASSUME NEW lanes, NEW order
  PROVE  /\ Sized(dw_pcie_setup(lanes, order), 7)
         /\ Part(dw_pcie_setup(lanes, order), 0,
                 << Rmw(PCIE_TIMER_CTRL_MAX_FUN_NUM_OFF, {}, {30}),
                    Rmw(PCIE_PORT_LINK_CONTROL, PORT_LINK_MODE_MASK,
                        PORT_LINK_MODE(lanes) \cup {7}),
                    Rmw(PCIE_LINK_WIDTH_SPEED_CONTROL, PORT_LOGIC_LINK_WIDTH_MASK,
                        PORT_LOGIC_LINK_WIDTH(lanes)) >>, 3)
         /\ Part(dw_pcie_setup(lanes, order), 3, link_number(order), 1)
         /\ Part(dw_pcie_setup(lanes, order), 4, gen3_related, 3)
<1> DEFINE a == << Rmw(PCIE_TIMER_CTRL_MAX_FUN_NUM_OFF, {}, {30}),
                   Rmw(PCIE_PORT_LINK_CONTROL, PORT_LINK_MODE_MASK,
                       PORT_LINK_MODE(lanes) \cup {7}),
                   Rmw(PCIE_LINK_WIDTH_SPEED_CONTROL, PORT_LOGIC_LINK_WIDTH_MASK,
                       PORT_LOGIC_LINK_WIDTH(lanes)) >>
           b == link_number(order)
           c == gen3_related
           s == dw_pcie_setup(lanes, order)
<1>1. s = (a \o b) \o c
  BY DEF dw_pcie_setup
<1>2. Sized(a, 3)
  BY ThreeSized
<1>3. Sized(b, 1)
  BY OneSized DEF link_number
<1>4. Sized(c, 3)
  BY ThreeSized DEF gen3_related
<1> HIDE DEF a, b, c, s
<1> DEFINE ab == a \o b
           abc == ab \o c
<1>5. Sized(ab, 3 + 1) /\ Part(ab, 0, a, 3) /\ Part(ab, 3, b, 1)
  BY <1>2, <1>3, AppendPart
<1> HIDE DEF ab
<1>6. Sized(ab, 4)
  BY <1>5
<1>7. Sized(abc, 4 + 3) /\ Part(abc, 0, ab, 4) /\ Part(abc, 4, c, 3)
  BY <1>4, <1>6, AppendPart
<1> HIDE DEF abc
<1>8. Part(abc, 0, a, 3)
  BY <1>5, <1>7, PartOfPart
<1>9. Part(abc, 3, b, 1)
  BY <1>5, <1>7, PartOfPart
<1>10. Sized(abc, 7)
  BY <1>7
<1>11. s = abc
  BY <1>1 DEF ab, abc
<1>12. QED
  BY <1>7, <1>8, <1>9, <1>10, <1>11 DEF s, a, b, c

\* The accesses of dw_pcie_setup_rc itself, before and after the windows.
RcBridge ==
  << Write(PCI_BASE_ADDRESS_0, {2}),
     Write(PCI_BASE_ADDRESS_1, {}),
     Rmw(PCI_INTERRUPT_LINE, GENMASK(15, 8), {8}),
     Rmw(PCI_PRIMARY_BUS, GENMASK(23, 0), {8} \cup GENMASK(23, 16)),
     set_command >>

RcClass ==
  << Write(PCI_BASE_ADDRESS_0, {}),
     WriteHalf(10, 1540),
     Rmw(PCIE_LINK_WIDTH_SPEED_CONTROL, {}, {PORT_LOGIC_SPEED_CHANGE}) >>

\* The whole program: eight parts, one after the other.
LEMMA ProgramParts ==
  ASSUME NEW c
  PROVE  /\ Sized(dw_pcie_setup_rc(c), 41)
         /\ Part(dw_pcie_setup_rc(c), 0, dw_pcie_dbi_ro_wr_en, 1)
         /\ Part(dw_pcie_setup_rc(c), 1, dw_pcie_setup(c.lane_num, c.order), 7)
         /\ Part(dw_pcie_setup_rc(c), 8, RcBridge, 5)
         /\ Part(dw_pcie_setup_rc(c), 13, dw_pcie_prog_outbound_atu(0, Window(c.port, 0)), 8)
         /\ Part(dw_pcie_setup_rc(c), 21, dw_pcie_prog_outbound_atu(1, Window(c.port, 1)), 8)
         /\ Part(dw_pcie_setup_rc(c), 29, dw_pcie_prog_outbound_atu(2, Window(c.port, 2)), 8)
         /\ Part(dw_pcie_setup_rc(c), 37, RcClass, 3)
         /\ Part(dw_pcie_setup_rc(c), 40, dw_pcie_dbi_ro_wr_dis, 1)
<1> DEFINE en == dw_pcie_dbi_ro_wr_en
           link == dw_pcie_setup(c.lane_num, c.order)
           bridge == RcBridge
           atu0 == dw_pcie_prog_outbound_atu(0, Window(c.port, 0))
           atu1 == dw_pcie_prog_outbound_atu(1, Window(c.port, 1))
           atu2 == dw_pcie_prog_outbound_atu(2, Window(c.port, 2))
           class == RcClass
           dis == dw_pcie_dbi_ro_wr_dis
           program == dw_pcie_setup_rc(c)
<1>1. program = ((((((en \o link) \o bridge) \o atu0) \o atu1) \o atu2) \o class) \o dis
  BY DEF dw_pcie_setup_rc, RcBridge, RcClass
<1>2. Sized(en, 1) /\ Sized(dis, 1)
  BY OneSized DEF dw_pcie_dbi_ro_wr_en, dw_pcie_dbi_ro_wr_dis
<1>3. Sized(link, 7)
  BY SetupProgram
<1>4. Sized(bridge, 5)
  BY FiveSized DEF RcBridge
<1>5. Sized(atu0, 8) /\ Sized(atu1, 8) /\ Sized(atu2, 8)
  BY AtuProgram
<1>6. Sized(class, 3)
  BY ThreeSized DEF RcClass
<1> HIDE DEF en, link, bridge, atu0, atu1, atu2, class, dis, program
<1> DEFINE p8 == en \o link
<1>7. Sized(p8, 1 + 7) /\ Part(p8, 0, en, 1) /\ Part(p8, 1, link, 7)
  BY <1>2, <1>3, AppendPart
<1>8. Sized(p8, 8)
  BY <1>7
<1> HIDE DEF p8
<1> DEFINE p13 == p8 \o bridge
<1>9. Sized(p13, 8 + 5) /\ Part(p13, 0, p8, 8) /\ Part(p13, 8, bridge, 5)
  BY <1>8, <1>4, AppendPart
<1>10. Sized(p13, 13)
  BY <1>9
<1> HIDE DEF p13
<1> DEFINE p21 == p13 \o atu0
<1>11. Sized(p21, 13 + 8) /\ Part(p21, 0, p13, 13) /\ Part(p21, 13, atu0, 8)
  BY <1>10, <1>5, AppendPart
<1>12. Sized(p21, 21)
  BY <1>11
<1> HIDE DEF p21
<1> DEFINE p29 == p21 \o atu1
<1>13. Sized(p29, 21 + 8) /\ Part(p29, 0, p21, 21) /\ Part(p29, 21, atu1, 8)
  BY <1>12, <1>5, AppendPart
<1>14. Sized(p29, 29)
  BY <1>13
<1> HIDE DEF p29
<1> DEFINE p37 == p29 \o atu2
<1>15. Sized(p37, 29 + 8) /\ Part(p37, 0, p29, 29) /\ Part(p37, 29, atu2, 8)
  BY <1>14, <1>5, AppendPart
<1>16. Sized(p37, 37)
  BY <1>15
<1> HIDE DEF p37
<1> DEFINE p40 == p37 \o class
<1>17. Sized(p40, 37 + 3) /\ Part(p40, 0, p37, 37) /\ Part(p40, 37, class, 3)
  BY <1>16, <1>6, AppendPart
<1>18. Sized(p40, 40)
  BY <1>17
<1> HIDE DEF p40
<1> DEFINE p41 == p40 \o dis
<1>19. Sized(p41, 40 + 1) /\ Part(p41, 0, p40, 40) /\ Part(p41, 40, dis, 1)
  BY <1>18, <1>2, AppendPart
<1>20. Sized(p41, 41)
  BY <1>19
<1> HIDE DEF p41
<1>21. Part(p41, 0, p37, 37)
  BY <1>19, <1>17, PartOfPart
<1>22. Part(p41, 0, p29, 29)
  BY <1>21, <1>15, PartOfPart
<1>23. Part(p41, 0, p21, 21)
  BY <1>22, <1>13, PartOfPart
<1>24. Part(p41, 0, p13, 13)
  BY <1>23, <1>11, PartOfPart
<1>25. Part(p41, 0, p8, 8)
  BY <1>24, <1>9, PartOfPart
<1>26. Part(p41, 0, en, 1)
  BY <1>25, <1>7, PartOfPart
<1>27. Part(p41, 1, link, 7)
  BY <1>25, <1>7, PartOfPart
<1>28. Part(p41, 8, bridge, 5)
  BY <1>24, <1>9, PartOfPart
<1>29. Part(p41, 13, atu0, 8)
  BY <1>23, <1>11, PartOfPart
<1>30. Part(p41, 21, atu1, 8)
  BY <1>22, <1>13, PartOfPart
<1>31. Part(p41, 29, atu2, 8)
  BY <1>21, <1>15, PartOfPart
<1>32. Part(p41, 37, class, 3)
  BY <1>19, <1>17, PartOfPart
<1>33. program = p41
  BY <1>1 DEF p8, p13, p21, p29, p37, p40, p41
<1>34. QED
  BY <1>27, <1>28, <1>29, <1>30, <1>31, <1>32, <1>33, <1>26, <1>19, <1>20
     DEF program, en, link, bridge, atu0, atu1, atu2, class, dis

\* Access number i of the set-up of a controller.
Access(c, i) == dw_pcie_setup_rc(c)[i]

\* The accesses to registers other than those of the windows, by their place.
ProgramIs(c) ==
  /\ Len(dw_pcie_setup_rc(c)) = 41
  /\ Access(c, 1) = Rmw(PCIE_MISC_CONTROL_1_OFF, {}, {PCIE_DBI_RO_WR_EN})
  /\ Access(c, 2) = Rmw(PCIE_TIMER_CTRL_MAX_FUN_NUM_OFF, {}, {30})
  /\ Access(c, 3) = Rmw(PCIE_PORT_LINK_CONTROL, PORT_LINK_MODE_MASK,
                          PORT_LINK_MODE(c.lane_num) \cup {7})
  /\ Access(c, 4) = Rmw(PCIE_LINK_WIDTH_SPEED_CONTROL, PORT_LOGIC_LINK_WIDTH_MASK,
                          PORT_LOGIC_LINK_WIDTH(c.lane_num))
  /\ Access(c, 5) = Rmw(PCIE_PORT_FORCE_OFF, PORT_LINK_NUM_MASK,
                          FIELD_PREP(PORT_LINK_NUM_MASK, c.order))
  /\ Access(c, 6) = Rmw(PCIE_GEN3_RELATED_OFF, RATE_SHADOW_SEL_MASK,
                          {GEN3_BIT} \cup RATE_SHADOW_SEL(0))
  /\ Access(c, 7) = Rmw(PCIE_GEN3_RELATED_OFF, RATE_SHADOW_SEL_MASK, RATE_SHADOW_SEL(1))
  /\ Access(c, 8) = Rmw(PCIE_GEN3_RELATED_OFF, RATE_SHADOW_SEL_MASK,
                          {GEN3_BIT} \cup RATE_SHADOW_SEL(1))
  /\ Access(c, 9) = Write(PCI_BASE_ADDRESS_0, {2})
  /\ Access(c, 10) = Write(PCI_BASE_ADDRESS_1, {})
  /\ Access(c, 11) = Rmw(PCI_INTERRUPT_LINE, GENMASK(15, 8), {8})
  /\ Access(c, 12) = Rmw(PCI_PRIMARY_BUS, GENMASK(23, 0), {8} \cup GENMASK(23, 16))
  /\ Access(c, 13) = set_command
  /\ Access(c, 38) = Write(PCI_BASE_ADDRESS_0, {})
  /\ Access(c, 39) = WriteHalf(10, 1540)
  /\ Access(c, 40) = Rmw(PCIE_LINK_WIDTH_SPEED_CONTROL, {}, {PORT_LOGIC_SPEED_CHANGE})
  /\ Access(c, 41) = Rmw(PCIE_MISC_CONTROL_1_OFF, {PCIE_DBI_RO_WR_EN}, {})

LEMMA ProgramAt == \A c : ProgramIs(c)
<1> SUFFICES ASSUME NEW c PROVE ProgramIs(c)
  OBVIOUS
<1> DEFINE p == dw_pcie_setup_rc(c)
<1>1. Len(p) = 41
  BY ProgramParts DEF Sized
<1>2. p[1] = Rmw(PCIE_MISC_CONTROL_1_OFF, {}, {PCIE_DBI_RO_WR_EN})
  <2>1. \A j \in 1 .. 1 : p[0 + j] = dw_pcie_dbi_ro_wr_en[j]
    BY ProgramParts DEF Part
  <2>2. p[0 + 1] = dw_pcie_dbi_ro_wr_en[1] /\ 0 + 1 = 1
    BY <2>1
  <2>3. QED
    BY <2>2 DEF dw_pcie_dbi_ro_wr_en
<1> DEFINE q == dw_pcie_setup(c.lane_num, c.order)
<1>3. /\ p[2] = q[1] /\ p[3] = q[2] /\ p[4] = q[3] /\ p[5] = q[4]
      /\ p[6] = q[5] /\ p[7] = q[6] /\ p[8] = q[7]
  <2>1. Part(p, 1, q, 7)
    BY ProgramParts
  <2> HIDE DEF q
  <2>2. \A j \in 1 .. 7 : p[1 + j] = q[j]
    BY <2>1 DEF Part
  <2>3. /\ p[1 + 1] = q[1] /\ p[1 + 2] = q[2] /\ p[1 + 3] = q[3] /\ p[1 + 4] = q[4]
        /\ p[1 + 5] = q[5] /\ p[1 + 6] = q[6] /\ p[1 + 7] = q[7]
    BY <2>2
  <2>4. QED
    BY <2>3
<1>4. /\ p[2] = Rmw(PCIE_TIMER_CTRL_MAX_FUN_NUM_OFF, {}, {30})
      /\ p[3] = Rmw(PCIE_PORT_LINK_CONTROL, PORT_LINK_MODE_MASK,
                 PORT_LINK_MODE(c.lane_num) \cup {7})
      /\ p[4] = Rmw(PCIE_LINK_WIDTH_SPEED_CONTROL, PORT_LOGIC_LINK_WIDTH_MASK,
                 PORT_LOGIC_LINK_WIDTH(c.lane_num))
  <2> DEFINE t == << Rmw(PCIE_TIMER_CTRL_MAX_FUN_NUM_OFF, {}, {30}),
                     Rmw(PCIE_PORT_LINK_CONTROL, PORT_LINK_MODE_MASK,
                         PORT_LINK_MODE(c.lane_num) \cup {7}),
                     Rmw(PCIE_LINK_WIDTH_SPEED_CONTROL, PORT_LOGIC_LINK_WIDTH_MASK,
                         PORT_LOGIC_LINK_WIDTH(c.lane_num)) >>
  <2>1. Part(q, 0, t, 3)
    BY SetupProgram
  <2> HIDE DEF t, q
  <2>2. \A j \in 1 .. 3 : q[0 + j] = t[j]
    BY <2>1 DEF Part
  <2>3. q[0 + 1] = t[1] /\ q[0 + 2] = t[2] /\ q[0 + 3] = t[3]
    BY <2>2
  <2>4. q[1] = t[1] /\ q[2] = t[2] /\ q[3] = t[3]
    BY <2>3
  <2>5. QED
    BY <1>3, <2>4 DEF t
<1>5. p[5] = Rmw(PCIE_PORT_FORCE_OFF, PORT_LINK_NUM_MASK,
                 FIELD_PREP(PORT_LINK_NUM_MASK, c.order))
  <2>1. Part(q, 3, link_number(c.order), 1)
    BY SetupProgram
  <2> HIDE DEF q
  <2>2. q[3 + 1] = link_number(c.order)[1] /\ 3 + 1 = 4
    BY <2>1 DEF Part
  <2>3. QED
    BY <1>3, <2>2 DEF link_number
<1>6. /\ p[6] = Rmw(PCIE_GEN3_RELATED_OFF, RATE_SHADOW_SEL_MASK,
                 {GEN3_BIT} \cup RATE_SHADOW_SEL(0))
      /\ p[7] = Rmw(PCIE_GEN3_RELATED_OFF, RATE_SHADOW_SEL_MASK, RATE_SHADOW_SEL(1))
      /\ p[8] = Rmw(PCIE_GEN3_RELATED_OFF, RATE_SHADOW_SEL_MASK,
                 {GEN3_BIT} \cup RATE_SHADOW_SEL(1))
  <2>1. Part(q, 4, gen3_related, 3)
    BY SetupProgram
  <2> HIDE DEF q
  <2>2. \A j \in 1 .. 3 : q[4 + j] = gen3_related[j]
    BY <2>1 DEF Part
  <2>3. /\ q[4 + 1] = gen3_related[1] /\ q[4 + 2] = gen3_related[2]
        /\ q[4 + 3] = gen3_related[3]
    BY <2>2
  <2>4. q[5] = gen3_related[1] /\ q[6] = gen3_related[2] /\ q[7] = gen3_related[3]
    BY <2>3
  <2>5. QED
    BY <1>3, <2>4 DEF gen3_related
<1>7. /\ p[9] = Write(PCI_BASE_ADDRESS_0, {2})
      /\ p[10] = Write(PCI_BASE_ADDRESS_1, {})
      /\ p[11] = Rmw(PCI_INTERRUPT_LINE, GENMASK(15, 8), {8})
      /\ p[12] = Rmw(PCI_PRIMARY_BUS, GENMASK(23, 0), {8} \cup GENMASK(23, 16))
      /\ p[13] = set_command
  <2>1. \A j \in 1 .. 5 : p[8 + j] = RcBridge[j]
    BY ProgramParts DEF Part
  <2>2. /\ p[8 + 1] = RcBridge[1] /\ p[8 + 2] = RcBridge[2] /\ p[8 + 3] = RcBridge[3]
        /\ p[8 + 4] = RcBridge[4] /\ p[8 + 5] = RcBridge[5]
    BY <2>1
  <2>3. /\ p[9] = RcBridge[1] /\ p[10] = RcBridge[2] /\ p[11] = RcBridge[3]
        /\ p[12] = RcBridge[4] /\ p[13] = RcBridge[5]
    BY <2>2
  <2>4. QED
    BY <2>3 DEF RcBridge
<1>8. /\ p[38] = Write(PCI_BASE_ADDRESS_0, {})
      /\ p[39] = WriteHalf(10, 1540)
      /\ p[40] = Rmw(PCIE_LINK_WIDTH_SPEED_CONTROL, {}, {PORT_LOGIC_SPEED_CHANGE})
  <2>1. \A j \in 1 .. 3 : p[37 + j] = RcClass[j]
    BY ProgramParts DEF Part
  <2>2. p[37 + 1] = RcClass[1] /\ p[37 + 2] = RcClass[2] /\ p[37 + 3] = RcClass[3]
    BY <2>1
  <2>3. p[38] = RcClass[1] /\ p[39] = RcClass[2] /\ p[40] = RcClass[3]
    BY <2>2
  <2>4. QED
    BY <2>3 DEF RcClass
<1>9. p[41] = Rmw(PCIE_MISC_CONTROL_1_OFF, {PCIE_DBI_RO_WR_EN}, {})
  <2>1. \A j \in 1 .. 1 : p[40 + j] = dw_pcie_dbi_ro_wr_dis[j]
    BY ProgramParts DEF Part
  <2>2. p[40 + 1] = dw_pcie_dbi_ro_wr_dis[1] /\ 40 + 1 = 41
    BY <2>1
  <2>3. QED
    BY <2>2 DEF dw_pcie_dbi_ro_wr_dis
<1>10. QED
  BY <1>1, <1>2, <1>4, <1>5, <1>6, <1>7, <1>8, <1>9 DEF Access, ProgramIs

\* The writes of the windows, by their place: seven fields, then the enable.
WindowIs(c, k) ==
  /\ \A j \in 1 .. 7 :
       Access(c, 13 + 8 * k + j)
         = WriteAtu(k, AtuFields[j], Registers(Window(c.port, k))[AtuFields[j]])
  /\ Access(c, 21 + 8 * k) = WriteAtu(k, "enable", TRUE)

LEMMA WindowsAt == \A c : \A k \in Regions : WindowIs(c, k)
<1> SUFFICES ASSUME NEW c, NEW k \in Regions PROVE WindowIs(c, k)
  OBVIOUS
<1> DEFINE w == Window(c.port, k)
           p == dw_pcie_setup_rc(c)
           q == dw_pcie_prog_outbound_atu(k, w)
<1>1. /\ \A j \in 1 .. 7 : q[j] = WriteAtu(k, AtuFields[j], Registers(w)[AtuFields[j]])
      /\ q[8] = WriteAtu(k, "enable", TRUE)
  BY AtuProgram
<1>2. Part(p, 13 + 8 * k, q, 8)
  <2>1. Part(p, 13, dw_pcie_prog_outbound_atu(0, Window(c.port, 0)), 8)
    BY ProgramParts
  <2>2. Part(p, 21, dw_pcie_prog_outbound_atu(1, Window(c.port, 1)), 8)
    BY ProgramParts
  <2>3. Part(p, 29, dw_pcie_prog_outbound_atu(2, Window(c.port, 2)), 8)
    BY ProgramParts
  <2>4. 13 + 8 * 0 = 13 /\ 13 + 8 * 1 = 21 /\ 13 + 8 * 2 = 29
    OBVIOUS
  <2>5. k = 0 \/ k = 1 \/ k = 2
    BY DEF Regions
  <2>6. QED
    BY <2>1, <2>2, <2>3, <2>4, <2>5
<1> HIDE DEF p, q, w
<1>3. \A j \in 1 .. 8 : p[13 + 8 * k + j] = q[j]
  BY <1>2 DEF Part
<1>4. \A j \in 1 .. 7 : p[13 + 8 * k + j] = q[j]
  BY <1>3
<1>5. p[21 + 8 * k] = q[8]
  <2>1. p[13 + 8 * k + 8] = q[8] /\ 13 + 8 * k + 8 = 21 + 8 * k
    BY <1>3 DEF Regions
  <2>2. QED
    BY <2>1
<1>6. QED
  BY <1>1, <1>4, <1>5 DEF Access, WindowIs, p, w

-----------------------------------------------------------------------------
(***************************************************************************)
(* What the accesses write.                                                *)
(***************************************************************************)
LEMMA WrittenFields ==
  ASSUME NEW lanes \in {4, 8, 16}, NEW order \in 0 .. 3
  PROVE  /\ PORT_LINK_MODE(lanes) = ShiftLeft(BitsOf(2 * lanes - 1), 16)
         /\ PORT_LINK_MODE(lanes) \subseteq 16 .. 21
         /\ PORT_LOGIC_LINK_WIDTH(lanes) = ShiftLeft(BitsOf(lanes), 8)
         /\ PORT_LOGIC_LINK_WIDTH(lanes) \subseteq 8 .. 12
         /\ FIELD_PREP(PORT_LINK_NUM_MASK, order) = ShiftLeft(BitsOf(order), 0)
         /\ FIELD_PREP(PORT_LINK_NUM_MASK, order) \subseteq 0 .. 7
<1>1. BitsOf(2 * lanes - 1) \subseteq 0 .. 5
  <2>1. 2 * lanes - 1 \in 0 .. Weight[6 + 1] - 1
    BY DEF Weight
  <2>2. BitsOf(2 * lanes - 1) \subseteq 0 .. 6 - 1
    BY <2>1, BitsBelow
  <2>3. QED
    BY <2>2
<1>2. BitsOf(lanes) \subseteq 0 .. 4
  <2>1. lanes \in 0 .. Weight[5 + 1] - 1
    BY DEF Weight
  <2>2. BitsOf(lanes) \subseteq 0 .. 5 - 1
    BY <2>1, BitsBelow
  <2>3. QED
    BY <2>2
<1>3. BitsOf(order) \subseteq 0 .. 7
  <2>1. order \in 0 .. Weight[8 + 1] - 1
    BY DEF Weight
  <2>2. BitsOf(order) \subseteq 0 .. 8 - 1
    BY <2>1, BitsBelow
  <2>3. QED
    BY <2>2
<1>4. /\ PORT_LINK_MODE(lanes) = ShiftLeft(BitsOf(2 * lanes - 1), 16)
      /\ PORT_LINK_MODE(lanes) \subseteq 16 .. 21
  <2>1. PORT_LINK_MODE(lanes) = FIELD_PREP(GENMASK(21, 16), 2 * lanes - 1)
    BY DEF PORT_LINK_MODE, PORT_LINK_MODE_MASK
  <2>2. 16 \in Bits /\ 21 \in 16 .. 31 /\ BitsOf(2 * lanes - 1) \subseteq 0 .. 21 - 16
    BY <1>1 DEF Bits
  <2>3. FIELD_PREP(GENMASK(21, 16), 2 * lanes - 1) = ShiftLeft(BitsOf(2 * lanes - 1), 16)
    BY <2>2, FieldPrepFits
  <2>4. FIELD_PREP(GENMASK(21, 16), 2 * lanes - 1) \subseteq GENMASK(21, 16)
    BY <2>2, FieldPrepInMask
  <2>5. QED
    BY <2>1, <2>3, <2>4 DEF GENMASK
<1>5. /\ PORT_LOGIC_LINK_WIDTH(lanes) = ShiftLeft(BitsOf(lanes), 8)
      /\ PORT_LOGIC_LINK_WIDTH(lanes) \subseteq 8 .. 12
  <2>1. PORT_LOGIC_LINK_WIDTH(lanes) = FIELD_PREP(GENMASK(12, 8), lanes)
    BY DEF PORT_LOGIC_LINK_WIDTH, PORT_LOGIC_LINK_WIDTH_MASK
  <2>2. 8 \in Bits /\ 12 \in 8 .. 31 /\ BitsOf(lanes) \subseteq 0 .. 12 - 8
    BY <1>2 DEF Bits
  <2>3. FIELD_PREP(GENMASK(12, 8), lanes) = ShiftLeft(BitsOf(lanes), 8)
    BY <2>2, FieldPrepFits
  <2>4. FIELD_PREP(GENMASK(12, 8), lanes) \subseteq GENMASK(12, 8)
    BY <2>2, FieldPrepInMask
  <2>5. QED
    BY <2>1, <2>3, <2>4 DEF GENMASK
<1>6. /\ FIELD_PREP(PORT_LINK_NUM_MASK, order) = ShiftLeft(BitsOf(order), 0)
      /\ FIELD_PREP(PORT_LINK_NUM_MASK, order) \subseteq 0 .. 7
  <2>1. 0 \in Bits /\ 7 \in 0 .. 31 /\ BitsOf(order) \subseteq 0 .. 7 - 0
    BY <1>3 DEF Bits
  <2>2. FIELD_PREP(GENMASK(7, 0), order) = ShiftLeft(BitsOf(order), 0)
    BY <2>1, FieldPrepFits
  <2>3. FIELD_PREP(GENMASK(7, 0), order) \subseteq GENMASK(7, 0)
    BY <2>1, FieldPrepInMask
  <2>4. QED
    BY <2>2, <2>3 DEF GENMASK, PORT_LINK_NUM_MASK
<1>7. QED
  BY <1>4, <1>5, <1>6

\* The values of RATE_SHADOW_SEL, and the copy each of them selects.
LEMMA ShadowSelect ==
  /\ RATE_SHADOW_SEL_MASK = {24, 25}
  /\ RATE_SHADOW_SEL(0) = {} /\ RATE_SHADOW_SEL(1) = {24}
  /\ Selected({}) = 0 /\ Selected({24}) = 1
  /\ \A sel \in SUBSET RATE_SHADOW_SEL_MASK : Selected(sel) \in 0 .. 3
<1>1. RATE_SHADOW_SEL_MASK = {24, 25}
  BY DEF RATE_SHADOW_SEL_MASK, GENMASK
<1>2. ASSUME NEW n \in Nat, BitsOf(n) \subseteq 0 .. 1
      PROVE  RATE_SHADOW_SEL(n) = ShiftLeft(BitsOf(n), 24)
  <2>1. 24 \in Bits /\ 25 \in 24 .. 31 /\ BitsOf(n) \subseteq 0 .. 25 - 24
    BY <1>2 DEF Bits
  <2>2. FIELD_PREP(GENMASK(25, 24), n) = ShiftLeft(BitsOf(n), 24)
    BY <2>1, FieldPrepFits
  <2>3. QED
    BY <2>2 DEF RATE_SHADOW_SEL, RATE_SHADOW_SEL_MASK
<1>3. RATE_SHADOW_SEL(0) = {}
  <2>1. RATE_SHADOW_SEL(0) = ShiftLeft({}, 24)
    BY <1>2, WrittenNumbers
  <2>2. QED
    BY <2>1 DEF ShiftLeft
<1>4. RATE_SHADOW_SEL(1) = {24}
  <2>1. RATE_SHADOW_SEL(1) = ShiftLeft({0}, 24)
    BY <1>2, WrittenNumbers
  <2>2. QED
    BY <2>1 DEF ShiftLeft, Bits
<1>5. RATE_SHADOW_SEL(2) = {25}
  <2>1. RATE_SHADOW_SEL(2) = ShiftLeft({1}, 24)
    BY <1>2, WrittenNumbers
  <2>2. QED
    BY <2>1 DEF ShiftLeft, Bits
<1>6. RATE_SHADOW_SEL(3) = {24, 25}
  <2>1. BitsOf(3) = {0, 1}
    <3>1. \A b \in 0 .. 15 : (3 \div Weight[b + 1]) % 2 = 1 <=> b \in {0, 1}
      BY DEF Weight
    <3>2. QED
      BY <3>1, BitTest, BitsOfRange
  <2>2. RATE_SHADOW_SEL(3) = ShiftLeft({0, 1}, 24)
    BY <1>2, <2>1
  <2>3. QED
    BY <2>2 DEF ShiftLeft, Bits
<1>7. \A n \in 0 .. 3 : /\ RATE_SHADOW_SEL(n) = {} <=> n = 0
                        /\ RATE_SHADOW_SEL(n) = {24} <=> n = 1
  <2>1. {} # {24} /\ {} # {25} /\ {} # {24, 25} /\ {24} # {25} /\ {24} # {24, 25}
    OBVIOUS
  <2>2. QED
    BY <1>3, <1>4, <1>5, <1>6, <2>1
<1>8. Selected({}) = 0 /\ Selected({24}) = 1
  BY <1>7 DEF Selected
<1>9. \A sel \in SUBSET RATE_SHADOW_SEL_MASK : Selected(sel) \in 0 .. 3
  <2> SUFFICES ASSUME NEW sel \in SUBSET {24, 25} PROVE Selected(sel) \in 0 .. 3
    BY <1>1
  <2>1. sel = {} \/ sel = {24} \/ sel = {25} \/ sel = {24, 25}
    OBVIOUS
  <2>2. \E n \in 0 .. 3 : RATE_SHADOW_SEL(n) = sel
    <3>1. 0 \in 0 .. 3 /\ 1 \in 0 .. 3 /\ 2 \in 0 .. 3 /\ 3 \in 0 .. 3
      OBVIOUS
    <3>2. QED
      BY <2>1, <3>1, <1>3, <1>4, <1>5, <1>6, Zenon
  <2> DEFINE P(n) == RATE_SHADOW_SEL(n) = sel
  <2>3. \E n \in 0 .. 3 : P(n)
    BY <2>2
  <2>4. Selected(sel) = CHOOSE n \in 0 .. 3 : P(n)
    BY DEF Selected
  <2> HIDE DEF P
  <2>5. QED
    BY <2>3, <2>4
<1>10. QED
  BY <1>1, <1>3, <1>4, <1>8, <1>9

\* The three updates of PCIE_GEN3_RELATED_OFF, bit by bit.
LEMMA RateAccesses ==
  \A c : /\ Access(c, 6) = Rmw(PCIE_GEN3_RELATED_OFF, {24, 25}, {9})
         /\ Access(c, 7) = Rmw(PCIE_GEN3_RELATED_OFF, {24, 25}, {24})
         /\ Access(c, 8) = Rmw(PCIE_GEN3_RELATED_OFF, {24, 25}, {9, 24})
<1> SUFFICES ASSUME NEW c
             PROVE  /\ Access(c, 6) = Rmw(PCIE_GEN3_RELATED_OFF, {24, 25}, {9})
                    /\ Access(c, 7) = Rmw(PCIE_GEN3_RELATED_OFF, {24, 25}, {24})
                    /\ Access(c, 8) = Rmw(PCIE_GEN3_RELATED_OFF, {24, 25}, {9, 24})
  OBVIOUS
<1>1. ProgramIs(c)
  BY ProgramAt
<1>2. /\ Access(c, 6) = Rmw(PCIE_GEN3_RELATED_OFF, RATE_SHADOW_SEL_MASK,
                            {GEN3_BIT} \cup RATE_SHADOW_SEL(0))
      /\ Access(c, 7) = Rmw(PCIE_GEN3_RELATED_OFF, RATE_SHADOW_SEL_MASK, RATE_SHADOW_SEL(1))
      /\ Access(c, 8) = Rmw(PCIE_GEN3_RELATED_OFF, RATE_SHADOW_SEL_MASK,
                            {GEN3_BIT} \cup RATE_SHADOW_SEL(1))
  BY <1>1 DEF ProgramIs
<1>3. /\ RATE_SHADOW_SEL_MASK = {24, 25}
      /\ RATE_SHADOW_SEL(0) = {} /\ RATE_SHADOW_SEL(1) = {24}
  BY ShadowSelect
<1>4. {GEN3_BIT} \cup {} = {9} /\ {GEN3_BIT} \cup {24} = {9, 24}
  BY DEF GEN3_BIT
<1>5. QED
  BY <1>2, <1>3, <1>4

\* The only write of half a register.
LEMMA ClassWrite == WriteHalf(10, 1540) = Rmw(PCI_CLASS_REVISION, 16 .. 31, {18, 25, 26})
<1>1. ShiftLeft(BitsOf(1540), 16) = {18, 25, 26}
  <2>1. ShiftLeft({2, 9, 10}, 16) = {18, 25, 26}
    BY DEF ShiftLeft, Bits
  <2>2. QED
    BY <2>1, WrittenNumbers
<1>2. 10 % 4 = 2 /\ 10 - (10 % 4) = 8 /\ GENMASK(16 + 15, 16) = 16 .. 31
  BY DEF GENMASK
<1>3. QED
  BY <1>1, <1>2 DEF WriteHalf, PCI_CLASS_REVISION

\* The offsets of the registers.
LEMMA RegisterNumbers ==
  /\ PCI_COMMAND = 4
  /\ PCI_CLASS_REVISION = 8
  /\ PCI_BASE_ADDRESS_0 = 16
  /\ PCI_BASE_ADDRESS_1 = 20
  /\ PCI_PRIMARY_BUS = 24
  /\ PCI_INTERRUPT_LINE = 60
  /\ PCIE_PORT_FORCE_OFF = 1800
  /\ PCIE_PORT_LINK_CONTROL = 1808
  /\ PCIE_TIMER_CTRL_MAX_FUN_NUM_OFF = 1816
  /\ PCIE_LINK_WIDTH_SPEED_CONTROL = 2060
  /\ PCIE_GEN3_RELATED_OFF = 2192
  /\ PCIE_MISC_CONTROL_1_OFF = 2236
  /\ PlainRegs = {4, 8, 16, 20, 24, 60, 1800, 1808, 1816, 2060, 2236}
BY DEF PCI_COMMAND, PCI_CLASS_REVISION, PCI_BASE_ADDRESS_0,
       PCI_BASE_ADDRESS_1, PCI_PRIMARY_BUS, PCI_INTERRUPT_LINE,
       PCIE_PORT_FORCE_OFF, PCIE_PORT_LINK_CONTROL,
       PCIE_TIMER_CTRL_MAX_FUN_NUM_OFF, PCIE_LINK_WIDTH_SPEED_CONTROL,
       PCIE_GEN3_RELATED_OFF, PCIE_MISC_CONTROL_1_OFF, PlainRegs

\* Which access is what, and which of them reach a register.
PlaceIs(c, i) ==
  /\ Access(c, i).op = "atu" <=> i \in 14 .. 37
  /\ Access(c, i).op = "write" <=> i \in {9, 10, 38}
  /\ Access(c, i).op = "rmw" <=> i \in (1 .. 8) \cup (11 .. 13) \cup (39 .. 41)
  /\ i \notin 14 .. 37 =>
       /\ Access(c, i).reg \in PlainRegs \cup {PCIE_GEN3_RELATED_OFF}
       /\ Access(c, i).reg = PCIE_MISC_CONTROL_1_OFF <=> i \in {1, 41}
       /\ Access(c, i).reg = PCIE_TIMER_CTRL_MAX_FUN_NUM_OFF <=> i = 2
       /\ Access(c, i).reg = PCIE_PORT_LINK_CONTROL <=> i = 3
       /\ Access(c, i).reg = PCIE_LINK_WIDTH_SPEED_CONTROL <=> i \in {4, 40}
       /\ Access(c, i).reg = PCIE_PORT_FORCE_OFF <=> i = 5
       /\ Access(c, i).reg = PCIE_GEN3_RELATED_OFF <=> i \in 6 .. 8
       /\ Access(c, i).reg = PCI_BASE_ADDRESS_0 <=> i \in {9, 38}
       /\ Access(c, i).reg = PCI_BASE_ADDRESS_1 <=> i = 10
       /\ Access(c, i).reg = PCI_INTERRUPT_LINE <=> i = 11
       /\ Access(c, i).reg = PCI_PRIMARY_BUS <=> i = 12
       /\ Access(c, i).reg = PCI_COMMAND <=> i = 13
       /\ Access(c, i).reg = PCI_CLASS_REVISION <=> i = 39

LEMMA Places == \A c : \A i \in 1 .. 41 : PlaceIs(c, i)
<1> SUFFICES ASSUME NEW c, NEW i \in 1 .. 41 PROVE PlaceIs(c, i)
  OBVIOUS
<1>0. ProgramIs(c)
  BY ProgramAt
<1>1. CASE i = 1
  <2>1. Access(c, 1) = Rmw(PCIE_MISC_CONTROL_1_OFF, {}, {PCIE_DBI_RO_WR_EN})
    BY <1>0 DEF ProgramIs
  <2>2. Access(c, i).op = "rmw" /\ Access(c, i).reg = PCIE_MISC_CONTROL_1_OFF
    BY <1>1, <2>1 DEF Rmw
  <2>3. QED
    BY <1>1, <2>2, RegisterNumbers DEF PlaceIs
<1>2. CASE i = 2
  <2>1. Access(c, 2) = Rmw(PCIE_TIMER_CTRL_MAX_FUN_NUM_OFF, {}, {30})
    BY <1>0 DEF ProgramIs
  <2>2. Access(c, i).op = "rmw" /\ Access(c, i).reg = PCIE_TIMER_CTRL_MAX_FUN_NUM_OFF
    BY <1>2, <2>1 DEF Rmw
  <2>3. QED
    BY <1>2, <2>2, RegisterNumbers DEF PlaceIs
<1>3. CASE i = 3
  <2>1. Access(c, 3) = Rmw(PCIE_PORT_LINK_CONTROL, PORT_LINK_MODE_MASK,
                  PORT_LINK_MODE(c.lane_num) \cup {7})
    BY <1>0 DEF ProgramIs
  <2>2. Access(c, i).op = "rmw" /\ Access(c, i).reg = PCIE_PORT_LINK_CONTROL
    BY <1>3, <2>1 DEF Rmw
  <2>3. QED
    BY <1>3, <2>2, RegisterNumbers DEF PlaceIs
<1>4. CASE i = 4
  <2>1. Access(c, 4) = Rmw(PCIE_LINK_WIDTH_SPEED_CONTROL, PORT_LOGIC_LINK_WIDTH_MASK,
                  PORT_LOGIC_LINK_WIDTH(c.lane_num))
    BY <1>0 DEF ProgramIs
  <2>2. Access(c, i).op = "rmw" /\ Access(c, i).reg = PCIE_LINK_WIDTH_SPEED_CONTROL
    BY <1>4, <2>1 DEF Rmw
  <2>3. QED
    BY <1>4, <2>2, RegisterNumbers DEF PlaceIs
<1>5. CASE i = 5
  <2>1. Access(c, 5) = Rmw(PCIE_PORT_FORCE_OFF, PORT_LINK_NUM_MASK,
                  FIELD_PREP(PORT_LINK_NUM_MASK, c.order))
    BY <1>0 DEF ProgramIs
  <2>2. Access(c, i).op = "rmw" /\ Access(c, i).reg = PCIE_PORT_FORCE_OFF
    BY <1>5, <2>1 DEF Rmw
  <2>3. QED
    BY <1>5, <2>2, RegisterNumbers DEF PlaceIs
<1>6. CASE i = 6
  <2>1. Access(c, 6) = Rmw(PCIE_GEN3_RELATED_OFF, RATE_SHADOW_SEL_MASK,
                  {GEN3_BIT} \cup RATE_SHADOW_SEL(0))
    BY <1>0 DEF ProgramIs
  <2>2. Access(c, i).op = "rmw" /\ Access(c, i).reg = PCIE_GEN3_RELATED_OFF
    BY <1>6, <2>1 DEF Rmw
  <2>3. QED
    BY <1>6, <2>2, RegisterNumbers DEF PlaceIs
<1>7. CASE i = 7
  <2>1. Access(c, 7) = Rmw(PCIE_GEN3_RELATED_OFF, RATE_SHADOW_SEL_MASK,
                  RATE_SHADOW_SEL(1))
    BY <1>0 DEF ProgramIs
  <2>2. Access(c, i).op = "rmw" /\ Access(c, i).reg = PCIE_GEN3_RELATED_OFF
    BY <1>7, <2>1 DEF Rmw
  <2>3. QED
    BY <1>7, <2>2, RegisterNumbers DEF PlaceIs
<1>8. CASE i = 8
  <2>1. Access(c, 8) = Rmw(PCIE_GEN3_RELATED_OFF, RATE_SHADOW_SEL_MASK,
                  {GEN3_BIT} \cup RATE_SHADOW_SEL(1))
    BY <1>0 DEF ProgramIs
  <2>2. Access(c, i).op = "rmw" /\ Access(c, i).reg = PCIE_GEN3_RELATED_OFF
    BY <1>8, <2>1 DEF Rmw
  <2>3. QED
    BY <1>8, <2>2, RegisterNumbers DEF PlaceIs
<1>9. CASE i = 9
  <2>1. Access(c, 9) = Write(PCI_BASE_ADDRESS_0, {2})
    BY <1>0 DEF ProgramIs
  <2>2. Access(c, i).op = "write" /\ Access(c, i).reg = PCI_BASE_ADDRESS_0
    BY <1>9, <2>1 DEF Write
  <2>3. QED
    BY <1>9, <2>2, RegisterNumbers DEF PlaceIs
<1>10. CASE i = 10
  <2>1. Access(c, 10) = Write(PCI_BASE_ADDRESS_1, {})
    BY <1>0 DEF ProgramIs
  <2>2. Access(c, i).op = "write" /\ Access(c, i).reg = PCI_BASE_ADDRESS_1
    BY <1>10, <2>1 DEF Write
  <2>3. QED
    BY <1>10, <2>2, RegisterNumbers DEF PlaceIs
<1>11. CASE i = 11
  <2>1. Access(c, 11) = Rmw(PCI_INTERRUPT_LINE, GENMASK(15, 8), {8})
    BY <1>0 DEF ProgramIs
  <2>2. Access(c, i).op = "rmw" /\ Access(c, i).reg = PCI_INTERRUPT_LINE
    BY <1>11, <2>1 DEF Rmw
  <2>3. QED
    BY <1>11, <2>2, RegisterNumbers DEF PlaceIs
<1>12. CASE i = 12
  <2>1. Access(c, 12) = Rmw(PCI_PRIMARY_BUS, GENMASK(23, 0), {8} \cup GENMASK(23, 16))
    BY <1>0 DEF ProgramIs
  <2>2. Access(c, i).op = "rmw" /\ Access(c, i).reg = PCI_PRIMARY_BUS
    BY <1>12, <2>1 DEF Rmw
  <2>3. QED
    BY <1>12, <2>2, RegisterNumbers DEF PlaceIs
<1>13. CASE i = 13
  <2>1. Access(c, 13) = set_command
    BY <1>0 DEF ProgramIs
  <2>2. Access(c, i).op = "rmw" /\ Access(c, i).reg = PCI_COMMAND
    BY <1>13, <2>1 DEF Rmw, set_command
  <2>3. QED
    BY <1>13, <2>2, RegisterNumbers DEF PlaceIs
<1>14. CASE i = 38
  <2>1. Access(c, 38) = Write(PCI_BASE_ADDRESS_0, {})
    BY <1>0 DEF ProgramIs
  <2>2. Access(c, i).op = "write" /\ Access(c, i).reg = PCI_BASE_ADDRESS_0
    BY <1>14, <2>1 DEF Write
  <2>3. QED
    BY <1>14, <2>2, RegisterNumbers DEF PlaceIs
<1>15. CASE i = 39
  <2>1. Access(c, 39) = Rmw(PCI_CLASS_REVISION, 16 .. 31, {18, 25, 26})
    BY <1>0, ClassWrite DEF ProgramIs
  <2>2. Access(c, i).op = "rmw" /\ Access(c, i).reg = PCI_CLASS_REVISION
    BY <1>15, <2>1 DEF Rmw
  <2>3. QED
    BY <1>15, <2>2, RegisterNumbers DEF PlaceIs
<1>16. CASE i = 40
  <2>1. Access(c, 40) = Rmw(PCIE_LINK_WIDTH_SPEED_CONTROL, {}, {PORT_LOGIC_SPEED_CHANGE})
    BY <1>0 DEF ProgramIs
  <2>2. Access(c, i).op = "rmw" /\ Access(c, i).reg = PCIE_LINK_WIDTH_SPEED_CONTROL
    BY <1>16, <2>1 DEF Rmw
  <2>3. QED
    BY <1>16, <2>2, RegisterNumbers DEF PlaceIs
<1>17. CASE i = 41
  <2>1. Access(c, 41) = Rmw(PCIE_MISC_CONTROL_1_OFF, {PCIE_DBI_RO_WR_EN}, {})
    BY <1>0 DEF ProgramIs
  <2>2. Access(c, i).op = "rmw" /\ Access(c, i).reg = PCIE_MISC_CONTROL_1_OFF
    BY <1>17, <2>1 DEF Rmw
  <2>3. QED
    BY <1>17, <2>2, RegisterNumbers DEF PlaceIs
<1>18. CASE i \in 14 .. 37
  <2>1. PICK n \in Regions : i \in 14 + 8 * n .. 21 + 8 * n
    <3>1. i \in 14 .. 21 \/ i \in 22 .. 29 \/ i \in 30 .. 37
      BY <1>18
    <3>2. 14 + 8 * 0 = 14 /\ 14 + 8 * 1 = 22 /\ 14 + 8 * 2 = 30
          /\ 21 + 8 * 0 = 21 /\ 21 + 8 * 1 = 29 /\ 21 + 8 * 2 = 37
      OBVIOUS
    <3>3. QED
      BY <3>1, <3>2 DEF Regions
  <2>0. /\ \A j \in 1 .. 7 :
             Access(c, 13 + 8 * n + j)
               = WriteAtu(n, AtuFields[j], Registers(Window(c.port, n))[AtuFields[j]])
        /\ Access(c, 21 + 8 * n) = WriteAtu(n, "enable", TRUE)
    BY WindowsAt DEF WindowIs
  <2>2. CASE i = 21 + 8 * n
    <3>1. Access(c, i).op = "atu"
      BY <2>0, <2>2 DEF WriteAtu
    <3>2. QED
      BY <1>18, <3>1 DEF PlaceIs
  <2>3. CASE i # 21 + 8 * n
    <3>1. PICK j \in 1 .. 7 : i = 13 + 8 * n + j
      <4>1. i - (13 + 8 * n) \in 1 .. 7 /\ i = 13 + 8 * n + (i - (13 + 8 * n))
        BY <2>1, <2>3 DEF Regions
      <4>2. QED
        BY <4>1
    <3>2. Access(c, i).op = "atu"
      BY <2>0, <3>1 DEF WriteAtu
    <3>3. QED
      BY <1>18, <3>2 DEF PlaceIs
  <2>4. QED
    BY <2>2, <2>3
<1>19. QED
  BY <1>1, <1>2, <1>3, <1>4, <1>5, <1>6, <1>7, <1>8, <1>9, <1>10, <1>11,
     <1>12, <1>13, <1>14, <1>15, <1>16, <1>17, <1>18

\* The bits the accesses of a controller change: they are bits of a word, and a
\* read-modify-write changes only what is listed as owned by the set-up.
WordsAre(c, i) ==
  LET a == Access(c, i)
  IN  /\ a.op = "write" => a.value \in AnyWord
      /\ a.op = "rmw" =>
           /\ a.clear \in AnyWord /\ a.set \in AnyWord
           /\ a.reg \in PlainRegs \ {PCI_COMMAND} => a.clear \cup a.set \subseteq Owned(a.reg)

LEMMA AccessWords == \A c \in Calls : \A i \in 1 .. 41 : WordsAre(c, i)
<1> SUFFICES ASSUME NEW c \in Calls, NEW i \in 1 .. 41 PROVE WordsAre(c, i)
  OBVIOUS
<1>0. ProgramIs(c) /\ PlaceIs(c, i)
  BY ProgramAt, Places
<1>1. CASE i = 1
  <2>1. Access(c, 1) = Rmw(PCIE_MISC_CONTROL_1_OFF, {}, {PCIE_DBI_RO_WR_EN})
    BY <1>0 DEF ProgramIs
  <2>2. Access(c, i).op = "rmw" /\ Access(c, i).reg = PCIE_MISC_CONTROL_1_OFF
    BY <1>1, <2>1 DEF Rmw
  <2>3. Access(c, i).clear \in AnyWord /\ Access(c, i).set \in AnyWord
    BY <1>1, <2>1 DEF Rmw, AnyWord, PCIE_DBI_RO_WR_EN, Bits
  <2>4. Owned(PCIE_MISC_CONTROL_1_OFF) = {0}
    BY RegisterNumbers DEF Owned
  <2>5. Access(c, i).clear \cup Access(c, i).set \subseteq Owned(PCIE_MISC_CONTROL_1_OFF)
    BY <1>1, <2>1, <2>4 DEF Rmw, PCIE_DBI_RO_WR_EN
  <2>6. QED
    BY <2>2, <2>3, <2>5 DEF WordsAre
<1>2. CASE i = 2
  <2>1. Access(c, 2) = Rmw(PCIE_TIMER_CTRL_MAX_FUN_NUM_OFF, {}, {30})
    BY <1>0 DEF ProgramIs
  <2>2. Access(c, i).op = "rmw" /\ Access(c, i).reg = PCIE_TIMER_CTRL_MAX_FUN_NUM_OFF
    BY <1>2, <2>1 DEF Rmw
  <2>3. Access(c, i).clear \in AnyWord /\ Access(c, i).set \in AnyWord
    BY <1>2, <2>1 DEF Rmw, AnyWord, GENMASK, Bits
  <2>4. Owned(PCIE_TIMER_CTRL_MAX_FUN_NUM_OFF) = {30}
    BY RegisterNumbers DEF Owned
  <2>5. Access(c, i).clear \cup Access(c, i).set \subseteq Owned(PCIE_TIMER_CTRL_MAX_FUN_NUM_OFF)
    BY <1>2, <2>1, <2>4 DEF Rmw, GENMASK
  <2>6. QED
    BY <2>2, <2>3, <2>5 DEF WordsAre
<1>3. CASE i = 3
  <2>1. Access(c, 3) = Rmw(PCIE_PORT_LINK_CONTROL, PORT_LINK_MODE_MASK,
              PORT_LINK_MODE(c.lane_num) \cup {7})
    BY <1>0 DEF ProgramIs
  <2>2. Access(c, i).op = "rmw" /\ Access(c, i).reg = PCIE_PORT_LINK_CONTROL
    BY <1>3, <2>1 DEF Rmw
  <2>3. Access(c, i).clear \in AnyWord /\ Access(c, i).set \in AnyWord
    BY <1>3, <2>1, WrittenFields DEF Rmw, AnyWord, PORT_LINK_MODE_MASK, GENMASK, Bits, Calls
  <2>4. Owned(PCIE_PORT_LINK_CONTROL) = GENMASK(21, 16) \cup {7}
    BY RegisterNumbers DEF Owned
  <2>5. Access(c, i).clear \cup Access(c, i).set \subseteq Owned(PCIE_PORT_LINK_CONTROL)
    BY <1>3, <2>1, <2>4, WrittenFields DEF Rmw, PORT_LINK_MODE_MASK, GENMASK, Calls
  <2>6. QED
    BY <2>2, <2>3, <2>5 DEF WordsAre
<1>4. CASE i = 4
  <2>1. Access(c, 4) = Rmw(PCIE_LINK_WIDTH_SPEED_CONTROL, PORT_LOGIC_LINK_WIDTH_MASK,
              PORT_LOGIC_LINK_WIDTH(c.lane_num))
    BY <1>0 DEF ProgramIs
  <2>2. Access(c, i).op = "rmw" /\ Access(c, i).reg = PCIE_LINK_WIDTH_SPEED_CONTROL
    BY <1>4, <2>1 DEF Rmw
  <2>3. Access(c, i).clear \in AnyWord /\ Access(c, i).set \in AnyWord
    BY <1>4, <2>1, WrittenFields DEF Rmw, AnyWord, PORT_LOGIC_LINK_WIDTH_MASK, GENMASK, Bits, Calls
  <2>4. Owned(PCIE_LINK_WIDTH_SPEED_CONTROL) = GENMASK(12, 8) \cup {17}
    BY RegisterNumbers DEF Owned
  <2>5. Access(c, i).clear \cup Access(c, i).set \subseteq Owned(PCIE_LINK_WIDTH_SPEED_CONTROL)
    BY <1>4, <2>1, <2>4, WrittenFields DEF Rmw, PORT_LOGIC_LINK_WIDTH_MASK, GENMASK, Calls
  <2>6. QED
    BY <2>2, <2>3, <2>5 DEF WordsAre
<1>5. CASE i = 5
  <2>1. Access(c, 5) = Rmw(PCIE_PORT_FORCE_OFF, PORT_LINK_NUM_MASK,
              FIELD_PREP(PORT_LINK_NUM_MASK, c.order))
    BY <1>0 DEF ProgramIs
  <2>2. Access(c, i).op = "rmw" /\ Access(c, i).reg = PCIE_PORT_FORCE_OFF
    BY <1>5, <2>1 DEF Rmw
  <2>3. Access(c, i).clear \in AnyWord /\ Access(c, i).set \in AnyWord
    BY <1>5, <2>1, WrittenFields DEF Rmw, AnyWord, PORT_LINK_NUM_MASK, GENMASK, Bits, Calls
  <2>4. Owned(PCIE_PORT_FORCE_OFF) = GENMASK(7, 0)
    BY RegisterNumbers DEF Owned
  <2>5. Access(c, i).clear \cup Access(c, i).set \subseteq Owned(PCIE_PORT_FORCE_OFF)
    BY <1>5, <2>1, <2>4, WrittenFields DEF Rmw, PORT_LINK_NUM_MASK, GENMASK, Calls
  <2>6. QED
    BY <2>2, <2>3, <2>5 DEF WordsAre
<1>6. CASE i = 6
  <2>1. Access(c, 6) = Rmw(PCIE_GEN3_RELATED_OFF, RATE_SHADOW_SEL_MASK,
              {GEN3_BIT} \cup RATE_SHADOW_SEL(0))
    BY <1>0 DEF ProgramIs
  <2>2. Access(c, i).op = "rmw" /\ Access(c, i).reg = PCIE_GEN3_RELATED_OFF
    BY <1>6, <2>1 DEF Rmw
  <2>3. Access(c, i).clear \in AnyWord /\ Access(c, i).set \in AnyWord
    BY <1>6, <2>1, ShadowSelect DEF Rmw, AnyWord, GEN3_BIT, Bits
  <2>4. QED
    BY <2>2, <2>3, RegisterNumbers DEF WordsAre
<1>7. CASE i = 7
  <2>1. Access(c, 7) = Rmw(PCIE_GEN3_RELATED_OFF, RATE_SHADOW_SEL_MASK,
              RATE_SHADOW_SEL(1))
    BY <1>0 DEF ProgramIs
  <2>2. Access(c, i).op = "rmw" /\ Access(c, i).reg = PCIE_GEN3_RELATED_OFF
    BY <1>7, <2>1 DEF Rmw
  <2>3. Access(c, i).clear \in AnyWord /\ Access(c, i).set \in AnyWord
    BY <1>7, <2>1, ShadowSelect DEF Rmw, AnyWord, Bits
  <2>4. QED
    BY <2>2, <2>3, RegisterNumbers DEF WordsAre
<1>8. CASE i = 8
  <2>1. Access(c, 8) = Rmw(PCIE_GEN3_RELATED_OFF, RATE_SHADOW_SEL_MASK,
              {GEN3_BIT} \cup RATE_SHADOW_SEL(1))
    BY <1>0 DEF ProgramIs
  <2>2. Access(c, i).op = "rmw" /\ Access(c, i).reg = PCIE_GEN3_RELATED_OFF
    BY <1>8, <2>1 DEF Rmw
  <2>3. Access(c, i).clear \in AnyWord /\ Access(c, i).set \in AnyWord
    BY <1>8, <2>1, ShadowSelect DEF Rmw, AnyWord, GEN3_BIT, Bits
  <2>4. QED
    BY <2>2, <2>3, RegisterNumbers DEF WordsAre
<1>9. CASE i = 9
  <2>1. Access(c, 9) = Write(PCI_BASE_ADDRESS_0, {2})
    BY <1>0 DEF ProgramIs
  <2>2. QED
    BY <1>9, <2>1 DEF WordsAre, Write, AnyWord, Bits
<1>10. CASE i = 10
  <2>1. Access(c, 10) = Write(PCI_BASE_ADDRESS_1, {})
    BY <1>0 DEF ProgramIs
  <2>2. QED
    BY <1>10, <2>1 DEF WordsAre, Write, AnyWord, Bits
<1>11. CASE i = 11
  <2>1. Access(c, 11) = Rmw(PCI_INTERRUPT_LINE, GENMASK(15, 8), {8})
    BY <1>0 DEF ProgramIs
  <2>2. Access(c, i).op = "rmw" /\ Access(c, i).reg = PCI_INTERRUPT_LINE
    BY <1>11, <2>1 DEF Rmw
  <2>3. Access(c, i).clear \in AnyWord /\ Access(c, i).set \in AnyWord
    BY <1>11, <2>1 DEF Rmw, AnyWord, GENMASK, Bits
  <2>4. Owned(PCI_INTERRUPT_LINE) = GENMASK(15, 8)
    BY RegisterNumbers DEF Owned
  <2>5. Access(c, i).clear \cup Access(c, i).set \subseteq Owned(PCI_INTERRUPT_LINE)
    BY <1>11, <2>1, <2>4 DEF Rmw, GENMASK
  <2>6. QED
    BY <2>2, <2>3, <2>5 DEF WordsAre
<1>12. CASE i = 12
  <2>1. Access(c, 12) = Rmw(PCI_PRIMARY_BUS, GENMASK(23, 0), {8} \cup GENMASK(23, 16))
    BY <1>0 DEF ProgramIs
  <2>2. Access(c, i).op = "rmw" /\ Access(c, i).reg = PCI_PRIMARY_BUS
    BY <1>12, <2>1 DEF Rmw
  <2>3. Access(c, i).clear \in AnyWord /\ Access(c, i).set \in AnyWord
    BY <1>12, <2>1 DEF Rmw, AnyWord, GENMASK, Bits
  <2>4. Owned(PCI_PRIMARY_BUS) = GENMASK(23, 0)
    BY RegisterNumbers DEF Owned
  <2>5. Access(c, i).clear \cup Access(c, i).set \subseteq Owned(PCI_PRIMARY_BUS)
    BY <1>12, <2>1, <2>4 DEF Rmw, GENMASK
  <2>6. QED
    BY <2>2, <2>3, <2>5 DEF WordsAre
<1>13. CASE i = 13
  <2>1. Access(c, 13) = Rmw(PCI_COMMAND, GENMASK(15, 0), {0, 1, 2, 8})
    BY <1>0 DEF ProgramIs, set_command
  <2>2. Access(c, i).op = "rmw" /\ Access(c, i).reg = PCI_COMMAND
    BY <1>13, <2>1 DEF Rmw
  <2>3. Access(c, i).clear \in AnyWord /\ Access(c, i).set \in AnyWord
    BY <1>13, <2>1 DEF Rmw, AnyWord, GENMASK, Bits
  <2>4. QED
    BY <2>2, <2>3 DEF WordsAre
<1>14. CASE i = 38
  <2>1. Access(c, 38) = Write(PCI_BASE_ADDRESS_0, {})
    BY <1>0 DEF ProgramIs
  <2>2. QED
    BY <1>14, <2>1 DEF WordsAre, Write, AnyWord, Bits
<1>15. CASE i = 39
  <2>1. Access(c, 39) = Rmw(PCI_CLASS_REVISION, 16 .. 31, {18, 25, 26})
    BY <1>0, ClassWrite DEF ProgramIs
  <2>2. Access(c, i).op = "rmw" /\ Access(c, i).reg = PCI_CLASS_REVISION
    BY <1>15, <2>1 DEF Rmw
  <2>3. Access(c, i).clear \in AnyWord /\ Access(c, i).set \in AnyWord
    BY <1>15, <2>1 DEF Rmw, AnyWord, GENMASK, Bits
  <2>4. Owned(PCI_CLASS_REVISION) = GENMASK(31, 16)
    BY RegisterNumbers DEF Owned
  <2>5. Access(c, i).clear \cup Access(c, i).set \subseteq Owned(PCI_CLASS_REVISION)
    BY <1>15, <2>1, <2>4 DEF Rmw, GENMASK
  <2>6. QED
    BY <2>2, <2>3, <2>5 DEF WordsAre
<1>16. CASE i = 40
  <2>1. Access(c, 40) = Rmw(PCIE_LINK_WIDTH_SPEED_CONTROL, {}, {PORT_LOGIC_SPEED_CHANGE})
    BY <1>0 DEF ProgramIs
  <2>2. Access(c, i).op = "rmw" /\ Access(c, i).reg = PCIE_LINK_WIDTH_SPEED_CONTROL
    BY <1>16, <2>1 DEF Rmw
  <2>3. Access(c, i).clear \in AnyWord /\ Access(c, i).set \in AnyWord
    BY <1>16, <2>1 DEF Rmw, AnyWord, PORT_LOGIC_SPEED_CHANGE, Bits
  <2>4. Owned(PCIE_LINK_WIDTH_SPEED_CONTROL) = GENMASK(12, 8) \cup {17}
    BY RegisterNumbers DEF Owned
  <2>5. Access(c, i).clear \cup Access(c, i).set \subseteq Owned(PCIE_LINK_WIDTH_SPEED_CONTROL)
    BY <1>16, <2>1, <2>4 DEF Rmw, PORT_LOGIC_SPEED_CHANGE
  <2>6. QED
    BY <2>2, <2>3, <2>5 DEF WordsAre
<1>17. CASE i = 41
  <2>1. Access(c, 41) = Rmw(PCIE_MISC_CONTROL_1_OFF, {PCIE_DBI_RO_WR_EN}, {})
    BY <1>0 DEF ProgramIs
  <2>2. Access(c, i).op = "rmw" /\ Access(c, i).reg = PCIE_MISC_CONTROL_1_OFF
    BY <1>17, <2>1 DEF Rmw
  <2>3. Access(c, i).clear \in AnyWord /\ Access(c, i).set \in AnyWord
    BY <1>17, <2>1 DEF Rmw, AnyWord, PCIE_DBI_RO_WR_EN, Bits
  <2>4. Owned(PCIE_MISC_CONTROL_1_OFF) = {0}
    BY RegisterNumbers DEF Owned
  <2>5. Access(c, i).clear \cup Access(c, i).set \subseteq Owned(PCIE_MISC_CONTROL_1_OFF)
    BY <1>17, <2>1, <2>4 DEF Rmw, PCIE_DBI_RO_WR_EN
  <2>6. QED
    BY <2>2, <2>3, <2>5 DEF WordsAre
<1>18. CASE i \in 14 .. 37
  BY <1>0, <1>18 DEF PlaceIs, WordsAre
<1>19. QED
  BY <1>1, <1>2, <1>3, <1>4, <1>5, <1>6, <1>7, <1>8, <1>9, <1>10, <1>11,
     <1>12, <1>13, <1>14, <1>15, <1>16, <1>17, <1>18
=============================================================================
