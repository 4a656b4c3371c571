----------------------------- MODULE HostTables -----------------------------
(***************************************************************************)
(* What the tables the program is built with say, in a build with the      *)
(* features b: which classes the host provides, what each extends, which   *)
(* class answers a call, and what host code calls and throws by name.      *)
(***************************************************************************)
EXTENDS ShimTable, NativesJava, NativesKotlin, NativesAndroid, NativesWeb,
        Naturals, Sequences

Feature == {"kotlin", "android", "tachiyomi", "okhttp", "jsoup", "quickjs"}

-----------------------------------------------------------------------------
(* The entries of throwable_ctors_table!. *)
THROWABLE_CTORS ==
    {<<c, {"<init>()V", "<init>(String)V", "<init>(String,Throwable)V",
           "<init>(Throwable)V"}>> :
        c \in {"java/lang/Throwable", "java/lang/Exception",
               "java/lang/RuntimeException", "java/lang/Error",
               "java/lang/AssertionError", "java/lang/StackOverflowError",
               "java/lang/OutOfMemoryError", "java/lang/NullPointerException",
               "java/lang/ArithmeticException",
               "java/lang/IllegalArgumentException",
               "java/lang/IllegalStateException",
               "java/lang/NumberFormatException",
               "java/lang/UnsupportedOperationException",
               "java/lang/IndexOutOfBoundsException",
               "java/lang/ArrayIndexOutOfBoundsException",
               "java/lang/StringIndexOutOfBoundsException",
               "java/lang/ClassCastException",
               "java/lang/NegativeArraySizeException",
               "java/util/NoSuchElementException",
               "java/lang/NoSuchMethodError", "java/lang/NoClassDefFoundError",
               "java/lang/ClassNotFoundException", "java/io/IOException",
               "java/net/MalformedURLException",
               "java/lang/InterruptedException", "java/lang/SecurityException",
               "org/json/JSONException"}}

(* java_tables: the tables of java.*, by what a build must select. *)
java_tables ==
    [always |-> JavaTables, android |-> JavaTablesWithAndroid,
     jsoup |-> JavaTablesWithJsoup]

(* native_tables: all tables, by what a build must select to have them. *)
native_tables ==
    [always    |-> java_tables.always \cup KotlinTables \cup WebTables
                   \cup THROWABLE_CTORS,
     android   |-> java_tables.android \cup AndroidTablesWithAndroid,
     jsoup     |-> java_tables.jsoup \cup WebTablesWithJsoup,
     okhttp    |-> WebTablesWithOkhttp,
     calls     |-> WebTablesWithOkhttpTachiyomi,
     tachiyomi |-> WebTablesWithTachiyomi,
     quickjs   |-> WebTablesWithQuickjs]

(* The members each part registers, by class. *)
Registered ==
    [g \in DOMAIN native_tables |->
        [c \in {e[1] : e \in native_tables[g]} |->
            UNION {e[2] : e \in {x \in native_tables[g] : x[1] = c}}]]

(* The parts of the tables in this build. *)
Compiled(b) ==
    {"always"} \cup (b \cap DOMAIN native_tables)
    \cup (IF {"okhttp", "tachiyomi"} \subseteq b THEN {"calls"} ELSE {})

Registers(b, c, m) ==
    \E g \in Compiled(b) : c \in DOMAIN Registered[g] /\ m \in Registered[g][c]

(* Mutant: Closeable, which okhttp's classes implement, comes with okhttp.  *)
ShimClassesMisfeatured ==
    {IF e.name = "java/io/Closeable" THEN [e EXCEPT !.feature = "okhttp"]
     ELSE e : e \in Entries}

(* SHIM_CLASSES; a name that is there twice has two equal entries. *)
SHIM_CLASSES == Entries

Declared ==
    [c \in {e.name : e \in SHIM_CLASSES} |->
        CHOOSE e \in SHIM_CLASSES : e.name = c]
IsDeclared(b, c) ==
    c \in DOMAIN Declared /\ Declared[c].feature \in b \cup {"base"}

(* The definition load_shim_class works from. *)
ShimDef(b, c) ==
    IF IsDeclared(b, c) THEN Declared[c]
    ELSE Shim("base", FALSE, c, "java/lang/Object", <<>>, {})

shim_or_native(b, c) ==
    IsDeclared(b, c) \/ \E g \in Compiled(b) : c \in DOMAIN Registered[g]

(* Every name the tables know. *)
Named ==
    DOMAIN Declared \cup UNION {DOMAIN Registered[g] : g \in DOMAIN native_tables}

Parents(b, c) ==
    (IF ShimDef(b, c).super = NoParent THEN <<>> ELSE <<ShimDef(b, c).super>>)
    \o ShimDef(b, c).ifaces

-----------------------------------------------------------------------------
(* Which class answers. *)

(* Mutant: the walk ends at an interface. *)
FindAboveClassesOnly(b, c0, m) ==
    LET find[c \in Named] ==
          IF Registers(b, c, m) THEN c
          ELSE IF ShimDef(b, c).super = NoParent THEN NoParent
          ELSE find[ShimDef(b, c).super]
    IN  find[c0]

(* resolve_target's walk: the superclasses, and Object above an interface. *)
FindAbove(b, c0, m) ==
    LET find[c \in Named] ==
          IF Registers(b, c, m) THEN c
          ELSE IF ShimDef(b, c).super # NoParent THEN find[ShimDef(b, c).super]
          ELSE IF ShimDef(b, c).iface THEN find["java/lang/Object"]
          ELSE NoParent
    IN  find[c0]

(* search_interfaces: whether an interface of c0, or one above it, has m. *)
InInterfaces(b, c0, m) ==
    LET has[c \in Named] ==
          Registers(b, c, m)
          \/ \E i \in 1..Len(ShimDef(b, c).ifaces) : has[ShimDef(b, c).ifaces[i]]
    IN  \E i \in 1..Len(ShimDef(b, c0).ifaces) : has[ShimDef(b, c0).ifaces[i]]

Resolves(b, c, m) == FindAbove(b, c, m) # NoParent \/ InInterfaces(b, c, m)

(* Mutant: a parent counts, a grandparent does not. *)
AssignableToParent(b, c0, t) ==
    c0 = t \/ \E i \in 1..Len(Parents(b, c0)) : Parents(b, c0)[i] = t

(* is_assignable, within its limits on depth. *)
Assignable(b, c0, t) ==
    LET up[c \in Named] ==
          c = t \/ \E i \in 1..Len(Parents(b, c)) : up[Parents(b, c)[i]]
    IN  up[c0]

-----------------------------------------------------------------------------
(* What host code calls and throws. *)

(* What native code calls on any object: java_equals, java_hash and        *)
(* to_jstring.                                                             *)
CalledOnAll == {"equals(Object)Z", "hashCode()I", "toString()String"}

(* What the bridge, and the defaults of HttpSource, call on objects of host *)
(* classes.                                                                *)
BridgeCalls ==
    [c \in {"eu/kanade/tachiyomi/source/online/HttpSource",
            "eu/kanade/tachiyomi/source/model/SMangaUpdate", "okhttp3/Request",
            "okhttp3/Request$Builder", "okhttp3/OkHttpClient", "okhttp3/Call"} |->
      CASE c = "eu/kanade/tachiyomi/source/online/HttpSource" ->
             {"getName", "getLang", "getBaseUrl", "getId", "getSupportsLatest",
              "fetchPopularManga", "fetchLatestUpdates", "fetchSearchManga",
              "fetchMangaDetails", "fetchChapterList", "fetchPageList",
              "popularMangaRequest", "popularMangaParse",
              "latestUpdatesRequest", "latestUpdatesParse",
              "searchMangaRequest", "searchMangaParse",
              "mangaDetailsRequest", "mangaDetailsParse",
              "chapterListRequest", "chapterListParse",
              "pageListRequest", "pageListParse", "imageUrlRequest", "imageUrlParse",
              "getPopularManga", "getLatestUpdates", "getSearchManga", "getPageList",
              "getMangaUpdate", "getFilterList", "getClient", "imageRequest",
              "createPreferenceScreen", "setupPreferenceScreen"}
        [] c = "eu/kanade/tachiyomi/source/model/SMangaUpdate" ->
             {"getManga", "getChapters"}
        [] c = "okhttp3/Request" ->
             {"header(String)String", "newBuilder()Request$Builder"}
        [] c = "okhttp3/Request$Builder" ->
             {"header(String,String)Request$Builder", "build()Request"}
        [] c = "okhttp3/OkHttpClient" -> {"newCall"}
        [] c = "okhttp3/Call" -> {"execute()Response"}]

(* The calls on a source that HttpSource has no method for: they resolve   *)
(* only if the extension has one.  The bridge takes the failure of          *)
(* fetchLatestUpdates and createPreferenceScreen for an answer; the others, *)
(* getFilterList of a source without filters among them, are errors.        *)
LeftToExtension ==
    {"fetchLatestUpdates", "popularMangaRequest", "popularMangaParse",
     "latestUpdatesRequest", "latestUpdatesParse", "searchMangaRequest",
     "searchMangaParse", "mangaDetailsParse", "chapterListParse", "pageListParse",
     "imageUrlRequest", "imageUrlParse", "getMangaUpdate", "getFilterList",
     "createPreferenceScreen", "setupPreferenceScreen"}

(* An interface of okhttp that the table declares as a class without a     *)
(* superclass; nothing makes an object of it.                              *)
NeverMade == {"okhttp3/CompressionInterceptor$DecompressionAlgorithm"}

(* What native code throws with throwable_of. *)
ShThrown ==
    {"java/lang/NullPointerException", "java/lang/ArithmeticException",
     "java/lang/ArrayIndexOutOfBoundsException",
     "java/lang/IndexOutOfBoundsException", "java/lang/ClassCastException",
     "java/lang/NegativeArraySizeException",
     "java/lang/UnsupportedOperationException",
     "java/lang/IllegalArgumentException", "java/lang/IllegalStateException",
     "java/lang/NumberFormatException", "java/io/FileNotFoundException",
     "java/io/IOException", "java/lang/StringIndexOutOfBoundsException",
     "java/io/EOFException", "java/lang/SecurityException",
     "java/util/NoSuchElementException",
     "kotlin/UninitializedPropertyAccessException",
     "java/nio/BufferUnderflowException", "java/lang/NoSuchFieldException"}

(* Classes native code throws that no table has: no load finds them.       *)
UnknownThrown ==
    {"kotlin/UninitializedPropertyAccessException", "java/lang/NoSuchFieldException"}
=============================================================================
