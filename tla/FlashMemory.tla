---------------------------- MODULE FlashMemory ----------------------------
(* The flash memory of the board as the bootloader sees it: the application *)
(* area followed by the configuration area, counted in 32-bit words, and    *)
(* the flash controller's rules for programming and erasing.  The metadata  *)
(* page has a variable of its own in the modules that use this one.         *)
EXTENDS Integers

CONSTANTS AppWords,     \* words of the application area
          ConfigWords   \* words of the configuration area

\* Areas are whole pages, and a page is a whole number of double words; the
\* application starts with its vector table: the stack and the reset vector.
ASSUME AreasAssumption ==
  /\ AppWords \in Nat /\ ConfigWords \in Nat
  /\ AppWords % 2 = 0 /\ ConfigWords % 2 = 0
  /\ AppWords >= 2 /\ ConfigWords >= 2

Areas == {"app", "config"}

AreaStart(area) == IF area = "app" THEN 0 ELSE AppWords
AreaEnd(area)   == IF area = "app" THEN AppWords ELSE AppWords + ConfigWords

AppAddresses == 0 .. AppWords - 1
Addresses    == 0 .. AppWords + ConfigWords - 1

\* What a word can hold: the word an image has for one address (named by that
\* address), a word of the image that was there before, a padding word, or
\* nothing since the last erase.
Erased == -1
Zero   == -2
Old    == -3
Contents == Addresses \cup {Erased, Zero, Old}
Flashes  == [Addresses -> Contents]

\* The flash controller programs one aligned, erased double word at a time.
Programmable(flash, a) == a % 2 = 0 /\ flash[a] = Erased /\ flash[a + 1] = Erased
Programmed(flash, a, first, second) ==
  [flash EXCEPT ![a] = first, ![a + 1] = second]

\* A page of the model is one double word: an area takes several erase steps.
PageErased(flash, page) == Programmed(flash, page, Erased, Erased)

\* IS_APP_EXIST looks at the first word (a stack pointer into RAM), and the
\* jump refuses an erased or a zero reset vector, the second word.
IsApplicationPresent(flash) == flash[0] \notin {Erased, Zero}
HasResetVector(flash)       == flash[1] \notin {Erased, Zero}
=============================================================================
