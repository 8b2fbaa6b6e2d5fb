----------------------------- MODULE MCMachines -----------------------------
(***************************************************************************)
(* The machines at their real sizes, with a few pages and values for each  *)
(* register.                                                               *)
(***************************************************************************)
EXTENDS Machines

\* Registers of an MMU page: the device, the frame and the flags.
PageStores(page, devices, frames, flags) ==
  {<<MMU_ADDR + page * 4, d>> : d \in devices}
    \cup {<<MMU_ADDR + page * 4 + 1, f>> : f \in frames}
    \cup {<<MMU_ADDR + page * 4 + 2, f>> : f \in flags}

MCStores ==
  [simple |-> {<<0, 1>>, <<65281, 0>>},
   eon |-> PageStores(14, {2, 3}, {1}, {1, 7}) \cup PageStores(1, {3}, {}, {1, 3})
             \cup {<<4096, 1>>, <<58368, 1>>, <<57601, 0>>},
   eon2 |-> {<<65296, s>> : s \in {1, 15}} \cup {<<65302, p>> : p \in {1, 3}}
              \cup {<<65303, f>> : f \in {1, 7}} \cup {<<4096, 1>>, <<63488, 1>>, <<65312, 0>>, <<65297, 0>>},
   wpc |-> {<<16380, 1>>, <<16380, 2>>, <<16316, 1>>, <<16318, 1>>, <<16381, 0>>, <<16381, 180>>}
             \cup {<<16382, k>> : k \in {1, 3, 5, 7, 15}}
             \cup {<<14336, 1>>, <<32768, 1>>, <<8192, 1>>}]

MCLoads ==
  [simple |-> {0}, eon |-> {0, 4096}, eon2 |-> {4096, 65312}, wpc |-> {0, 8192}]

MCWords == {0, 31, 32, 62, 63, 111, 113, 115, 119, 127, 200, 255, 449, 480, 508}
=============================================================================
