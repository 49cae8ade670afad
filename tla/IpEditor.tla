----------------------------- MODULE IpEditor -------------------------------
(* The address editor (draw_functions/ip_assigner.c): three digits an octet on  *)
(* the screen, a selector that walks over them, and UP and DOWN, which change   *)
(* the selected digit and write the digits back into the caller's address.      *)
(* Its scenes open it on an address of theirs, and every digit changed is in    *)
(* that address at once.                                                        *)
EXTENDS Naturals

CONSTANT Octets     \* an address has this many, at least 1; 4 in the program

VARIABLES
    digits,         \* digits_array, an octet's three in a row
    selector,       \* selector_position
    address         \* ip_array, the bytes of the caller

vars == <<digits, selector, address>>

Positions == 0..(3 * Octets - 1)
OctetOf(p) == p \div 3
ShownIn(d, o) == 100 * d[3 * o] + 10 * d[3 * o + 1] + d[3 * o + 2]

(* get_num                                                                      *)
Digit(n, p) == (n \div (10 ^ p)) % 10

(* update_ip_data: the sum is kept in a byte.                                   *)
Stored(d) == [o \in 0..(Octets - 1) |-> ShownIn(d, o) % 256]

TypeOK ==
    /\ digits \in [Positions -> 0..9]
    /\ selector \in Positions
    /\ address \in [0..(Octets - 1) -> 0..255]

(* ip_assigner_reset and ip_assigner_set_ip_array, on any address.              *)
Init ==
    /\ address \in [0..(Octets - 1) -> 0..255]
    /\ digits = [p \in Positions |-> Digit(address[OctetOf(p)], 2 - (p % 3))]
    /\ selector = 0

Right ==
    /\ selector' = IF selector + 1 \in Positions THEN selector + 1 ELSE 0
    /\ UNCHANGED <<digits, address>>

Left ==
    /\ selector' = IF selector = 0 THEN 3 * Octets - 1 ELSE selector - 1
    /\ UNCHANGED <<digits, address>>

-----------------------------------------------------------------------------
(* The digits h, t, u of the selected octet after a press; k is the one         *)
(* selected.                                                                    *)

CycleUp(n, last) == IF n = last THEN 0 ELSE n + 1
CycleDown(n, last) == IF n = 0 THEN last ELSE n - 1
AtMost5(n) == IF n > 5 THEN 5 ELSE n

(* Variant: counting the first digit up to 2 leaves the other two as they are.  *)
SumUnclamped(k, h, t, u) ==
    CASE k = 0 -> <<CycleUp(h, 2), t, u>>
      [] k = 1 -> <<h, CycleUp(t, IF h = 2 THEN 5 ELSE 9), u>>
      [] k = 2 -> <<h, t, CycleUp(u, 9)>>

(* validate_num_in_sum                                                          *)
Sum(k, h, t, u) ==
    CASE k = 0 -> IF h = 1
                  THEN <<2, AtMost5(t), IF t >= 5 THEN AtMost5(u) ELSE u>>
                  ELSE <<CycleUp(h, 2), t, u>>
      [] k = 1 -> IF h = 2 /\ t = 4
                  THEN <<h, 5, AtMost5(u)>>
                  ELSE <<h, CycleUp(t, IF h = 2 /\ t = 5 THEN 5 ELSE 9), u>>
      [] k = 2 -> <<h, t, CycleUp(u, IF h = 2 /\ t = 5 /\ u = 5 THEN 5 ELSE 9)>>

(* validate_num_in_subtraction                                                  *)
Subtraction(k, h, t, u) ==
    CASE k = 0 -> IF h = 0
                  THEN <<2, AtMost5(t), IF t > 5 THEN AtMost5(u) ELSE u>>
                  ELSE <<CycleDown(h, 2), t, u>>
      [] k = 1 -> IF h = 2 /\ t = 0
                  THEN <<h, 5, AtMost5(u)>>
                  ELSE <<h, CycleDown(t, 9), u>>
      [] k = 2 -> <<h, t, CycleDown(u, IF h = 2 /\ t = 5 THEN 5 ELSE 9)>>

Selected(k) == digits[3 * OctetOf(selector) + k]

Show(new) ==
    /\ digits' = [p \in Positions |->
                     IF OctetOf(p) = OctetOf(selector) THEN new[(p % 3) + 1] ELSE digits[p]]
    /\ address' = Stored(digits')
    /\ UNCHANGED selector

Up == Show(Sum(selector % 3, Selected(0), Selected(1), Selected(2)))
Down == Show(Subtraction(selector % 3, Selected(0), Selected(1), Selected(2)))

Next == Right \/ Left \/ Up \/ Down

Spec == Init /\ [][Next]_vars
=============================================================================
