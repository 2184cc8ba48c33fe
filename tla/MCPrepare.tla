----------------------------- MODULE MCPrepare -----------------------------
(* Bounds for TLC: two images for the main module, which may change from   *)
(* one to the other or lose its headers, with holes in what is known of    *)
(* them at both ends of the trace; and libraries that take one another's   *)
(* place, with holes in what is known when they are loaded.                *)
EXTENDS Prepare

(* A layout with room for ten exports and three names of each module.      *)
MCNameAt(i) == 200 + 10 * i
MCCodeAt == 300..399
MCDllAt(i) == 440 + 10 * i
MCLookupAt(i) == 500 + 20 * i
MCSlotsAt(i) == 600 + 20 * i
MCHintAt(i, t) == 700 + 30 * i + 10 * t
MCDataAt(i) == 800 + 50 * i

Ord(n) == [ordinal |-> TRUE, text |-> <<n>>]
Nam(text) == [ordinal |-> FALSE, text |-> text]

(* ASCII texts, the last up to the end, and one in UTF-16.                 *)
Data ==
  [exec |-> FALSE, data |-> <<65, 66, 67, 1, 68, 0, 69, 0, 70, 0, 71, 72, 9>>,
   texts |-> <<<<65, 66, 67>>, <<71, 72, 9>>, <<68, 69, 70>>>>]
Wide == [exec |-> FALSE, data |-> <<68, 0, 69, 0, 7, 0, 65, 66, 32>>,
         texts |-> <<<<65, 66, 32>>, <<68, 69>>>>]
Code == [exec |-> TRUE, data |-> <<65, 66, 67, 68>>, texts |-> <<>>]

(* An alias, a forwarder and an unused slot among the exports; imports by  *)
(* name and ordinal from a bound module and an unbound one.                *)
App64 ==
  [is64 |-> TRUE, sections |-> <<Code, Wide>>,
   exports |-> <<[name |-> <<65, 66>>, rva |-> 300], [name |-> <<67, 66>>, rva |-> 140],
                 [name |-> <<68, 66>>, rva |-> 300], [name |-> <<69>>, rva |-> 0]>>,
   imports |-> <<[dll |-> <<75, 50>>, bound |-> TRUE, names |-> <<Ord(5), Nam(<<82, 102>>)>>],
                 [dll |-> <<77>>, bound |-> FALSE, names |-> <<Nam(<<83>>)>>]>>]

App32 ==
  [is64 |-> FALSE, sections |-> <<Wide, Code, Data>>,
   exports |-> <<[name |-> <<90>>, rva |-> 301]>>,
   imports |-> <<[dll |-> <<78>>, bound |-> FALSE, names |-> <<Nam(<<84>>), Ord(6), Nam(<<85>>)>>]>>]

Lib64 ==
  [is64 |-> TRUE, sections |-> <<Code>>,
   exports |-> <<[name |-> <<76, 49>>, rva |-> 300], [name |-> <<76, 50, 51, 52>>, rva |-> 302]>>,
   imports |-> <<>>]

Lib32 ==
  [is64 |-> FALSE, sections |-> <<Code>>,
   exports |-> <<[name |-> <<77, 49>>, rva |-> 302], [name |-> <<77, 50>>, rva |-> 303],
                 [name |-> <<77, 51>>, rva |-> 302]>>,
   imports |-> <<>>]

MCImages == {App64, App32, Lib64, Lib32}

(* What may be unknown of an image: a structure, a table, texts, or a part *)
(* of a structure.                                                         *)
Holes ==
  {0..1, 7..9, 9..12, 13..17, 15..17, 18..32, 100..104, 102..104, 112..113, 121..121,
   131..139, 211..219, 400..402, 402..402, 521..521, 522..529, 621..621, 731..732,
   752..752, 803..820, 903..903}

Place(image, base, holes) ==
  [a \in {base + x : x \in DOMAIN Mapped[image] \ holes} |-> Mapped[image][a - base]]

(* The loader has erased the headers from memory.                          *)
Wiped(image, base) ==
  [a \in {base + x : x \in DOMAIN Mapped[image]} |->
     IF a - base < 50 THEN 0 ELSE Mapped[image][a - base]]

App(image) == [path |-> "C:", stem |-> "app", ext |-> "exe", base |-> 1000, image |-> image]
Dll(path, stem, image) ==
  [path |-> path, stem |-> stem, ext |-> "dll", base |-> 2000, image |-> image]

Alone == [module |-> 1, at |-> 0, until |-> 3]

Of(modules, loads, first, second, last) ==
  [modules |-> modules, loads |-> loads,
   memory |-> [p \in 0..2 |-> CASE p = 0 -> first [] p = 1 -> second [] p = 2 -> last]]

(* A part of the image's structures may be unknown at the end; what is left *)
(* at the beginning is then read, of the same image or another one.        *)
Changing ==
  {Of(<<App(before)>>, <<Alone>>, Place(before, 1000, {}), <<>>, Place(after, 1000, a \cup b)) :
     before \in {App64, App32}, after \in {App64, App32}, a \in Holes, b \in {{}, 18..32}}
  \cup {Of(<<App(image)>>, <<Alone>>, Place(image, 1000, early), <<>>, Place(image, 1000, late)) :
     image \in {App64, App32}, early \in Holes, late \in {{}, 0..1, 13..17, 18..32}}

Erased ==
  {Of(<<App(image)>>, <<Alone>>, Place(image, 1000, early), <<>>, Wiped(image, 1000)) :
     image \in {App64, App32}, early \in Holes}

(* One library is unloaded, another comes to the same place; or they have  *)
(* the same name, in two directories.                                      *)
Moving ==
  {Of(<<Dll("a", "lib", one), App(App64), Dll("b", stem, other)>>,
      <<[Alone EXCEPT !.module = 2], [module |-> 1, at |-> 0, until |-> 1],
        [module |-> 3, at |-> 1, until |-> 3]>>,
      Place(one, 2000, early) @@ Place(App64, 1000, {}), Place(other, 2000, late),
      Place(App64, 1000, {})) :
     one \in {Lib64, Lib32, App64}, other \in {Lib64, Lib32}, stem \in {"lib", "net"},
     early \in {{}, 100..104, 120..120, 211..219}, late \in {{}, 102..104, 112..113, 211..219}}

NoProgram ==
  {Of(<<Dll("a", "lib", Lib64)>>, <<Alone>>, Place(Lib64, 2000, {}), <<>>, <<>>)}

MCTraces == Changing \cup Erased \cup Moving \cup NoProgram
============================================================================
