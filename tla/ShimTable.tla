----------------------------- MODULE ShimTable -----------------------------
(****************************************************************************)
(* SHIM_CLASSES, the table of the classes the host provides.  A name is a   *)
(* descriptor without L and ;.  Kept of the static fields are the classes of*)
(* those of a reference type.  Left out are the instance field that each of *)
(* the nine kotlin Ref classes declares, and the flags but ACC_INTERFACE.   *)
(****************************************************************************)

NoParent == "none"

(* One entry: its feature (base: every build), whether it is an interface, *)
(* its name, superclass, interfaces and the classes of its static fields.  *)
Shim(feature, iface, name, super, ifaces, statics) ==
    [feature |-> feature, iface |-> iface, name |-> name, super |-> super,
     ifaces |-> ifaces, statics |-> statics]

(* Entries without interfaces and reference-typed statics, by superclass. *)
Classes(feature, super, names) ==
    {Shim(feature, FALSE, n, super, <<>>, {}) : n \in names}
Interfaces(feature, super, names) ==
    {Shim(feature, TRUE, n, super, <<>>, {}) : n \in names}

-----------------------------------------------------------------------------
(* vm/class.rs, 138 to 285 *)
SHIM_CLASSES_1 ==
         Classes("base", NoParent, {"java/lang/Object"})
    \cup Interfaces("base", NoParent,
            {"java/io/Serializable", "java/lang/Cloneable", "java/lang/Comparable",
             "java/lang/CharSequence", "java/lang/Iterable"})
    \cup Classes("base", "java/lang/Object", {"java/lang/reflect/AccessibleObject"})
    \cup Classes("base", "java/lang/reflect/AccessibleObject",
            {"java/lang/reflect/Field"})
    \cup Interfaces("tachiyomi", NoParent,
            {"eu/kanade/tachiyomi/source/SourceFactory",
             "eu/kanade/tachiyomi/source/Source"})
    \cup Interfaces("tachiyomi", "eu/kanade/tachiyomi/source/Source",
            {"eu/kanade/tachiyomi/source/ConfigurableSource"})
    \cup Classes("tachiyomi", "java/lang/Object",
            {"eu/kanade/tachiyomi/source/online/HttpSource",
             "eu/kanade/tachiyomi/network/NetworkHelper",
             "eu/kanade/tachiyomi/source/model/SManga$Companion",
             "eu/kanade/tachiyomi/source/model/SChapter$Companion",
             "eu/kanade/tachiyomi/source/model/Page",
             "eu/kanade/tachiyomi/source/model/MangasPage",
             "eu/kanade/tachiyomi/source/model/FilterList",
             "eu/kanade/tachiyomi/source/model/Filter"})
    \cup { Shim("tachiyomi", FALSE, "eu/kanade/tachiyomi/source/model/SManga",
               "java/lang/Object", <<>>,
               {"eu/kanade/tachiyomi/source/model/SManga$Companion"}),
           Shim("tachiyomi", FALSE, "eu/kanade/tachiyomi/source/model/SChapter",
               "java/lang/Object", <<>>,
               {"eu/kanade/tachiyomi/source/model/SChapter$Companion"}) }

(* vm/class.rs, 286 to 434 *)
SHIM_CLASSES_2 ==
         Classes("tachiyomi", "eu/kanade/tachiyomi/source/model/Filter",
            {"eu/kanade/tachiyomi/source/model/Filter$Header",
             "eu/kanade/tachiyomi/source/model/Filter$Separator",
             "eu/kanade/tachiyomi/source/model/Filter$Select",
             "eu/kanade/tachiyomi/source/model/Filter$CheckBox",
             "eu/kanade/tachiyomi/source/model/Filter$Sort",
             "eu/kanade/tachiyomi/source/model/Filter$Text",
             "eu/kanade/tachiyomi/source/model/Filter$TriState",
             "eu/kanade/tachiyomi/source/model/Filter$Group"})
    \cup Classes("jsoup", "java/lang/Object",
            {"eu/kanade/tachiyomi/util/JsoupExtensionsKt", "org/jsoup/Jsoup"})
    \cup Classes("kotlin", "java/lang/Object", {"kotlin/text/StringsKt"})
    \cup { Shim("tachiyomi", FALSE, "eu/kanade/tachiyomi/source/model/UpdateStrategy",
               "java/lang/Enum", <<>>,
               {"eu/kanade/tachiyomi/source/model/UpdateStrategy"}),
           Shim("kotlin", FALSE, "kotlin/text/RegexOption",
               "java/lang/Enum", <<>>, {"kotlin/text/RegexOption"}),
           Shim("kotlin", FALSE, "kotlin/text/Charsets",
               "java/lang/Object", <<>>, {"java/nio/charset/Charset"}) }

(* vm/class.rs, 435 to 580 *)
SHIM_CLASSES_3 ==
         Classes("jsoup", "org/jsoup/nodes/Element", {"org/jsoup/nodes/Document"})
    \cup Classes("jsoup", "java/lang/Object", {"org/jsoup/nodes/Element"})
    \cup Classes("jsoup", "java/util/AbstractCollection", {"org/jsoup/select/Elements"})
    \cup Interfaces("okhttp", NoParent,
            {"okhttp3/Interceptor", "okhttp3/Interceptor$Chain"})
    \cup Classes("okhttp", "java/lang/Object",
            {"okhttp3/OkHttpClient$Builder", "okhttp3/FormBody", "okio/Okio"})
    \cup Classes("okhttp", "okhttp3/Interceptor",
            {"eu/kanade/tachiyomi/network/interceptor/UncaughtExceptionInterceptor",
             "eu/kanade/tachiyomi/network/interceptor/UserAgentInterceptor",
             "eu/kanade/tachiyomi/network/interceptor/CloudflareInterceptor",
             "okhttp3/CompressionInterceptor", "okhttp3/brotli/BrotliInterceptor"})
    \cup Classes("okhttp", NoParent,
            {"okhttp3/CompressionInterceptor$DecompressionAlgorithm"})
    \cup { Shim("okhttp", FALSE, "okhttp3/OkHttpClient",
               "java/lang/Object", <<"java/io/Closeable", "java/lang/Cloneable">>, {}),
           Shim("okhttp", FALSE, "okhttp3/brotli/Brotli",
               "java/lang/Object", <<>>, {"okhttp3/brotli/Brotli"}),
           Shim("okhttp", FALSE, "okhttp3/Gzip",
               "java/lang/Object", <<>>, {"okhttp3/Gzip"}),
           Shim("okhttp", FALSE, "okhttp3/zstd/Zstd",
               "java/lang/Object", <<>>, {"okhttp3/zstd/Zstd"}),
           Shim("okhttp", TRUE, "okio/Source", NoParent, <<"java/io/Closeable">>, {}),
           Shim("okhttp", TRUE, "okio/BufferedSource",
               NoParent, <<"okio/Source", "java/io/Closeable">>, {}) }

(* vm/class.rs, 581 to 725 *)
SHIM_CLASSES_4 ==
         Classes("okhttp", "java/lang/Object",
            {"okio/ByteString", "okio/ByteStreams", "okio/ByteStreamsKt",
             "okhttp3/FormBody$Builder", "okhttp3/HttpUrl$Companion",
             "okhttp3/HttpUrl$Builder", "okhttp3/MediaType$Companion", "okhttp3/Headers",
             "okhttp3/RequestBody$Companion", "okhttp3/Request$Builder", "okhttp3/Request",
             "okhttp3/Call", "okhttp3/Response", "eu/kanade/tachiyomi/network/RequestsKt"})
    \cup Interfaces("android", NoParent, {"android/content/Context"})
    \cup { Shim("okhttp", FALSE, "okio/Buffer",
               "java/lang/Object", <<"okio/BufferedSource", "java/io/Closeable">>, {}),
           Shim("okhttp", FALSE, "okhttp3/HttpUrl",
               "java/lang/Object", <<>>, {"okhttp3/HttpUrl$Companion"}),
           Shim("okhttp", FALSE, "okhttp3/MediaType",
               "java/lang/Object", <<>>, {"okhttp3/MediaType$Companion"}),
           Shim("okhttp", FALSE, "okhttp3/RequestBody",
               "java/lang/Object", <<>>, {"okhttp3/RequestBody$Companion"}),
           Shim("okhttp", FALSE, "okhttp3/CacheControl",
               "java/lang/Object", <<>>, {"okhttp3/CacheControl"}),
           Shim("okhttp", FALSE, "okhttp3/ResponseBody",
               "java/lang/Object", <<>>, {"okhttp3/ResponseBody$Companion"}) }

(* vm/class.rs, 726 to 872 *)
SHIM_CLASSES_5 ==
         Classes("android", "android/content/Context",
            {"android/content/ContextWrapper"})
    \cup Classes("android", "android/content/ContextWrapper",
            {"android/app/Activity", "android/app/Application"})
    \cup Classes("android", "java/lang/RuntimeException",
            {"android/content/ActivityNotFoundException"})
    \cup Classes("android", "java/lang/Object",
            {"android/content/Intent", "android/net/Uri", "android/os/Bundle",
             "android/os/SystemClock", "android/util/Log", "android/webkit/CookieManager",
             "androidx/preference/Preference"})
    \cup Interfaces("android", NoParent, {"android/content/SharedPreferences"})
    \cup Classes("android", "androidx/preference/Preference",
            {"androidx/preference/PreferenceScreen",
             "androidx/preference/SwitchPreferenceCompat"})
    \cup Classes("base", "java/lang/Throwable",
            {"java/lang/Exception", "java/lang/Error"})
    \cup Classes("base", "java/lang/Exception", {"java/lang/RuntimeException"})
    \cup Classes("base", "java/lang/Error",
            {"java/lang/AssertionError", "java/lang/StackOverflowError",
             "java/lang/OutOfMemoryError"})
    \cup { Shim("base", FALSE, "java/lang/String",
               "java/lang/Object", <<"java/io/Serializable", "java/lang/Comparable",
               "java/lang/CharSequence">>, {}),
           Shim("base", FALSE, "java/lang/StringBuilder",
               "java/lang/Object", <<"java/io/Serializable",
               "java/lang/CharSequence">>, {}),
           Shim("base", FALSE, "java/lang/Class",
               "java/lang/Object", <<"java/io/Serializable",
               "java/lang/reflect/GenericDeclaration", "java/lang/reflect/Type",
               "java/lang/reflect/AnnotatedElement">>, {}),
           Shim("base", FALSE, "java/lang/Throwable",
               "java/lang/Object", <<"java/io/Serializable">>, {}) }

(* vm/class.rs, 873 to 1022 *)
SHIM_CLASSES_6 ==
         Classes("base", "java/lang/RuntimeException",
            {"java/lang/NullPointerException", "java/lang/ArithmeticException",
             "java/lang/IllegalArgumentException", "java/lang/IllegalStateException",
             "java/lang/UnsupportedOperationException",
             "java/lang/IndexOutOfBoundsException", "java/lang/ClassCastException",
             "java/lang/NegativeArraySizeException", "java/util/NoSuchElementException",
             "java/lang/SecurityException"})
    \cup Classes("base", "java/lang/IllegalArgumentException",
            {"java/lang/NumberFormatException"})
    \cup Classes("base", "java/lang/IndexOutOfBoundsException",
            {"java/lang/ArrayIndexOutOfBoundsException",
             "java/lang/StringIndexOutOfBoundsException"})
    \cup Classes("base", "java/lang/Error",
            {"java/lang/NoSuchMethodError", "java/lang/NoClassDefFoundError"})
    \cup Classes("base", "java/lang/Exception",
            {"java/lang/ClassNotFoundException", "java/io/IOException",
             "java/lang/InterruptedException"})
    \cup Classes("base", "java/io/IOException", {"java/net/MalformedURLException"})
    \cup Classes("base", "java/io/InputStream", {"java/io/ByteArrayInputStream"})
    \cup { Shim("base", FALSE, "java/io/InputStream",
               "java/lang/Object", <<"java/io/Closeable">>, {}),
           Shim("base", FALSE, "java/lang/Enum",
               "java/lang/Object", <<"java/lang/Comparable", "java/io/Serializable">>,
               {}),
           Shim("base", FALSE, "java/lang/System",
               "java/lang/Object", <<>>, {"java/io/PrintStream"}) }

(* vm/class.rs, 1023 to 1143 *)
SHIM_CLASSES_7 ==
         Classes("base", "java/lang/Object", {"java/lang/Math"})
    \cup { Shim("base", FALSE, "java/io/PrintStream",
               "java/lang/Object", <<"java/lang/Appendable", "java/io/Closeable">>, {}),
           Shim("base", FALSE, "java/lang/Integer",
               "java/lang/Number", <<"java/lang/Comparable">>, {"java/lang/Class"}),
           Shim("base", FALSE, "java/lang/Long",
               "java/lang/Number", <<"java/lang/Comparable">>, {"java/lang/Class"}),
           Shim("base", FALSE, "java/lang/Short",
               "java/lang/Number", <<"java/lang/Comparable">>, {"java/lang/Class"}),
           Shim("base", FALSE, "java/lang/Byte",
               "java/lang/Number", <<"java/lang/Comparable">>, {"java/lang/Class"}),
           Shim("base", FALSE, "java/lang/Character",
               "java/lang/Object", <<"java/lang/Comparable">>, {"java/lang/Class"}),
           Shim("base", FALSE, "java/lang/Boolean",
               "java/lang/Object", <<"java/lang/Comparable">>, {"java/lang/Boolean",
               "java/lang/Class"}) }

(* vm/class.rs, 1144 to 1293 *)
SHIM_CLASSES_8 ==
         Classes("base", "java/lang/Object",
            {"java/lang/Thread", "java/security/MessageDigest",
             "java/security/SecureRandom", "javax/crypto/Cipher"})
    \cup Classes("base", "java/lang/Enum", {"java/lang/Thread$State"})
    \cup Interfaces("base", NoParent,
            {"java/security/Key", "java/security/spec/AlgorithmParameterSpec"})
    \cup Interfaces("base", "java/lang/Iterable", {"java/util/Collection"})
    \cup Interfaces("base", "java/util/Collection", {"java/util/List", "java/util/Set"})
    \cup Interfaces("base", "java/util/Set", {"java/util/SortedSet"})
    \cup Interfaces("base", "java/util/SortedSet", {"java/util/NavigableSet"})
    \cup Interfaces("base", "java/lang/Object", {"java/util/Map"})
    \cup { Shim("base", FALSE, "java/lang/Float",
               "java/lang/Number", <<"java/lang/Comparable">>, {"java/lang/Class"}),
           Shim("base", FALSE, "java/lang/Double",
               "java/lang/Number", <<"java/lang/Comparable">>, {"java/lang/Class"}),
           Shim("base", FALSE, "java/lang/Number",
               "java/lang/Object", <<"java/io/Serializable">>, {}),
           Shim("base", FALSE, "java/lang/StackTraceElement",
               "java/lang/Object", <<"java/io/Serializable">>, {}),
           Shim("base", FALSE, "javax/crypto/spec/SecretKeySpec",
               "java/lang/Object", <<"java/security/Key",
               "java/security/spec/AlgorithmParameterSpec">>, {}),
           Shim("base", FALSE, "javax/crypto/spec/GCMParameterSpec",
               "java/lang/Object", <<"java/security/spec/AlgorithmParameterSpec">>, {}) }

(* vm/class.rs, 1294 to 1409 *)
SHIM_CLASSES_9 ==
         Interfaces("base", "java/util/Map", {"java/util/SortedMap"})
    \cup Interfaces("base", "java/util/SortedMap", {"java/util/NavigableMap"})
    \cup Interfaces("base", "java/lang/Object",
            {"java/util/Map$Entry", "java/util/Iterator", "java/util/Comparator",
             "java/util/RandomAccess"})
    \cup Interfaces("base", "java/util/Iterator", {"java/util/ListIterator"})
    \cup Classes("base", "java/util/Collection", {"java/util/AbstractCollection"})
    \cup Classes("base", "java/util/Map", {"java/util/AbstractMap"})
    \cup Classes("base", "java/lang/Object",
            {"java/util/Collections", "java/util/Arrays", "java/util/Objects"})
    \cup { Shim("base", FALSE, "java/util/ArrayList",
               "java/util/AbstractList", <<"java/util/List", "java/util/RandomAccess",
               "java/lang/Cloneable", "java/io/Serializable">>, {}),
           Shim("base", FALSE, "java/util/AbstractList",
               "java/util/AbstractCollection", <<"java/util/List">>, {}),
           Shim("base", FALSE, "java/util/AbstractSet",
               "java/util/AbstractCollection", <<"java/util/Set">>, {}),
           Shim("base", FALSE, "java/util/HashMap",
               "java/util/AbstractMap", <<"java/util/Map", "java/lang/Cloneable",
               "java/io/Serializable">>, {}),
           Shim("base", FALSE, "java/util/LinkedHashMap",
               "java/util/HashMap", <<"java/util/Map">>, {}),
           Shim("base", FALSE, "java/util/HashSet",
               "java/util/AbstractSet", <<"java/util/Set", "java/lang/Cloneable",
               "java/io/Serializable">>, {}),
           Shim("base", FALSE, "java/util/LinkedHashSet",
               "java/util/HashSet", <<"java/util/Set", "java/lang/Cloneable",
               "java/io/Serializable">>, {}) }

(* vm/class.rs, 1410 to 1557 *)
SHIM_CLASSES_10 ==
         Interfaces("base", "java/util/Collection", {"java/util/Deque"})
    \cup Classes("base", "java/lang/Object",
            {"java/text/DateFormat", "java/text/ParsePosition"})
    \cup Classes("base", "java/text/DateFormat", {"java/text/SimpleDateFormat"})
    \cup Interfaces("base", NoParent,
            {"java/util/concurrent/locks/Lock", "java/util/concurrent/locks/Condition"})
    \cup { Shim("base", FALSE, "java/util/Locale",
               "java/lang/Object", <<"java/io/Serializable", "java/lang/Cloneable">>,
               {"java/util/Locale"}),
           Shim("base", FALSE, "java/util/TimeZone",
               "java/lang/Object", <<"java/io/Serializable", "java/lang/Cloneable">>,
               {}),
           Shim("base", FALSE, "java/util/ArrayDeque",
               "java/util/AbstractCollection", <<"java/util/Deque",
               "java/lang/Cloneable", "java/io/Serializable">>, {}),
           Shim("base", FALSE, "java/util/concurrent/locks/ReentrantLock",
               "java/lang/Object", <<"java/util/concurrent/locks/Lock",
               "java/io/Serializable">>, {}),
           Shim("base", FALSE, "java/nio/charset/Charset",
               "java/lang/Object", <<"java/io/Serializable", "java/lang/Comparable">>,
               {}),
           Shim("base", FALSE, "java/nio/charset/StandardCharsets",
               "java/lang/Object", <<>>, {"java/nio/charset/Charset"}) }

(* vm/class.rs, 1558 to 1687 *)
SHIM_CLASSES_11 ==
         Classes("base", "java/lang/Object",
            {"java/util/regex/Matcher", "kotlin/LazyKt", "kotlin/time/Duration$Companion"})
    \cup Interfaces("base", "java/lang/Object",
            {"java/lang/reflect/GenericDeclaration", "java/lang/reflect/Type",
             "java/lang/reflect/AnnotatedElement", "java/lang/Appendable",
             "java/io/Closeable", "java/io/Flushable"})
    \cup Interfaces("base", NoParent,
            {"kotlin/jvm/functions/Function0", "kotlin/jvm/functions/Function1"})
    \cup { Shim("base", FALSE, "java/util/regex/Pattern",
               "java/lang/Object", <<"java/io/Serializable">>, {}),
           Shim("base", FALSE, "java/util/Random",
               "java/lang/Object", <<"java/io/Serializable">>, {}),
           Shim("base", FALSE, "java/util/Date",
               "java/lang/Object", <<"java/io/Serializable", "java/lang/Cloneable",
               "java/lang/Comparable">>, {}),
           Shim("base", TRUE, "kotlin/Lazy", NoParent, <<"java/io/Serializable">>, {}),
           Shim("base", FALSE, "kotlin/SynchronizedLazyImpl",
               "java/lang/Object", <<"kotlin/Lazy", "java/io/Serializable">>, {}),
           Shim("base", FALSE, "kotlin/LazyThreadSafetyMode",
               "java/lang/Enum", <<>>, {"kotlin/LazyThreadSafetyMode"}),
           Shim("base", FALSE, "kotlin/time/Duration",
               "java/lang/Object", <<>>, {"kotlin/time/Duration$Companion"}) }

(* vm/class.rs, 1688 to 1835 *)
SHIM_CLASSES_12 ==
         Classes("base", "java/lang/Object",
            {"kotlin/time/DurationKt", "kotlin/collections/CollectionsKt",
             "kotlin/collections/IntIterator", "kotlin/comparisons/ComparisonsKt",
             "kotlin/jvm/internal/Intrinsics",
             "kotlin/coroutines/jvm/internal/SuspendLambda"})
    \cup Classes("base", "kotlin/ranges/IntProgression", {"kotlin/ranges/IntRange"})
    \cup Interfaces("base", NoParent,
            {"kotlinx/coroutines/CoroutineScope", "kotlin/coroutines/CoroutineContext",
             "kotlinx/coroutines/Job"})
    \cup { Shim("base", FALSE, "kotlin/time/DurationUnit",
               "java/lang/Object", <<>>, {"kotlin/time/DurationUnit"}),
           Shim("base", FALSE, "kotlin/text/Regex",
               "java/lang/Object", <<"java/io/Serializable">>,
               {"kotlin/text/Regex$Companion"}),
           Shim("base", FALSE, "kotlin/Unit", "java/lang/Object", <<>>, {"kotlin/Unit"}),
           Shim("base", FALSE, "kotlinx/coroutines/GlobalScope",
               "java/lang/Object", <<"kotlinx/coroutines/CoroutineScope">>,
               {"kotlinx/coroutines/GlobalScope"}),
           Shim("base", FALSE, "kotlinx/coroutines/CoroutineDispatcher",
               "java/lang/Object", <<"kotlin/coroutines/CoroutineContext">>, {}),
           Shim("base", FALSE, "kotlin/coroutines/jvm/internal/ContinuationImpl",
               "java/lang/Object", <<"kotlin/coroutines/Continuation">>, {}) }

(* vm/class.rs, 1836 to 1984 *)
SHIM_CLASSES_13 ==
         Interfaces("base", NoParent,
            {"kotlin/coroutines/Continuation", "kotlin/jvm/functions/Function2",
             "kotlin/text/MatchResult"})
    \cup Classes("base", "java/lang/Object",
            {"kotlin/coroutines/intrinsics/IntrinsicsKt", "kotlin/ResultKt",
             "okhttp3/CacheControl$Builder", "kotlin/coroutines/CoroutineDispatcher",
             "kotlin/Result$Failure", "kotlin/Result$Companion", "kotlin/TuplesKt",
             "kotlin/ranges/RangesKt", "kotlin/jvm/internal/DefaultConstructorMarker"})
    \cup Classes("tachiyomi", "java/lang/Object",
            {"kotlinx/serialization/json/JsonElement$Companion",
             "kotlinx/serialization/json/JsonObject$Companion"})
    \cup Classes("tachiyomi", "kotlinx/serialization/json/JsonElement",
            {"kotlinx/serialization/json/JsonArray"})
    \cup { Shim("base", FALSE, "kotlin/Pair",
               "java/lang/Object", <<"java/io/Serializable">>, {}),
           Shim("base", FALSE, "kotlin/Result",
               "java/lang/Object", <<>>, {"kotlin/Result$Companion"}),
           Shim("base", FALSE, "kotlin/text/MatcherMatchResult",
               "java/lang/Object", <<"kotlin/text/MatchResult">>, {}),
           Shim("base", FALSE, "kotlin/jvm/internal/StringCompanionObject",
               "java/lang/Object", <<>>, {"kotlin/jvm/internal/StringCompanionObject"}),
           Shim("tachiyomi", FALSE, "kotlinx/serialization/json/Json",
               "java/lang/Object", <<"java/io/Serializable">>, {}),
           Shim("tachiyomi", FALSE, "kotlinx/serialization/json/JsonElement",
               "java/lang/Object", <<"java/io/Serializable">>,
               {"kotlinx/serialization/json/JsonElement$Companion"}),
           Shim("tachiyomi", FALSE, "kotlinx/serialization/json/JsonObject",
               "kotlinx/serialization/json/JsonElement", <<>>,
               {"kotlinx/serialization/json/JsonObject$Companion"}) }

(* vm/class.rs, 1985 to 2125 *)
SHIM_CLASSES_14 ==
         Classes("tachiyomi", "kotlinx/serialization/json/JsonElement",
            {"kotlinx/serialization/json/JsonPrimitive"})
    \cup Classes("tachiyomi", "kotlinx/serialization/json/JsonPrimitive",
            {"kotlinx/serialization/json/JsonNull",
             "kotlinx/serialization/json/JsonLiteral"})
    \cup Interfaces("tachiyomi", NoParent,
            {"kotlinx/serialization/SerializationStrategy",
             "kotlinx/serialization/DeserializationStrategy",
             "kotlinx/serialization/encoding/Decoder",
             "kotlinx/serialization/encoding/Encoder",
             "kotlinx/serialization/descriptors/SerialDescriptor"})
    \cup Classes("tachiyomi", "java/lang/Object",
            {"kotlinx/serialization/json/okio/OkioStreamsKt",
             "kotlinx/serialization/builtins/BuiltinSerializersKt",
             "kotlinx/serialization/internal/PluginExceptionsKt"})
    \cup { Shim("tachiyomi", TRUE, "kotlinx/serialization/KSerializer",
               NoParent, <<"kotlinx/serialization/SerializationStrategy",
               "kotlinx/serialization/DeserializationStrategy">>, {}),
           Shim("tachiyomi", TRUE, "kotlinx/serialization/encoding/CompositeDecoder",
               NoParent, <<"kotlinx/serialization/encoding/Decoder">>, {}),
           Shim("tachiyomi", TRUE, "kotlinx/serialization/encoding/CompositeEncoder",
               NoParent, <<"kotlinx/serialization/encoding/Encoder">>, {}),
           Shim("tachiyomi", TRUE, "kotlinx/serialization/json/JsonDecoder",
               NoParent, <<"kotlinx/serialization/encoding/Decoder">>, {}),
           Shim("tachiyomi", TRUE, "kotlinx/serialization/internal/GeneratedSerializer",
               NoParent, <<"kotlinx/serialization/KSerializer">>, {}),
           Shim("tachiyomi", FALSE, "kotlinx/serialization/internal/PluginGeneratedSerialDescriptor",
               "java/lang/Object",
               <<"kotlinx/serialization/descriptors/SerialDescriptor">>, {}),
           Shim("tachiyomi", FALSE, "kotlinx/serialization/internal/ArrayListSerializer",
               "java/lang/Object", <<"kotlinx/serialization/KSerializer">>, {}),
           Shim("tachiyomi", FALSE, "kotlinx/serialization/internal/StringSerializer",
               "java/lang/Object", <<"kotlinx/serialization/KSerializer">>,
               {"kotlinx/serialization/internal/StringSerializer"}) }

(* vm/class.rs, 2126 to 2272 *)
SHIM_CLASSES_15 ==
         Classes("tachiyomi", "java/lang/Object", {"com/squareup/zstd/okio/OkioZstd"})
    \cup Classes("tachiyomi", "java/lang/IllegalArgumentException",
            {"kotlinx/serialization/UnknownFieldException"})
    \cup Classes("base", "java/lang/Object",
            {"uy/kohesive/injekt/InjektKt", "uy/kohesive/injekt/api/FullTypeReference"})
    \cup Interfaces("base", NoParent,
            {"uy/kohesive/injekt/api/InjektFactory",
             "uy/kohesive/injekt/api/InjektRegister"})
    \cup Classes("kotlin", "java/lang/Object",
            {"kotlin/ExceptionsKt", "kotlin/Triple", "kotlin/UByteArray",
             "kotlin/UIntArray", "kotlin/ULong", "kotlin/UnsignedKt",
             "kotlin/collections/ArrayDeque", "kotlin/collections/CharIterator"})
    \cup Classes("kotlin", "java/lang/RuntimeException", {"kotlin/NotImplementedError"})
    \cup { Shim("tachiyomi", FALSE, "kotlinx/serialization/internal/IntSerializer",
               "java/lang/Object", <<"kotlinx/serialization/KSerializer">>,
               {"kotlinx/serialization/internal/IntSerializer"}),
           Shim("tachiyomi", FALSE, "kotlinx/serialization/internal/LongSerializer",
               "java/lang/Object", <<"kotlinx/serialization/KSerializer">>,
               {"kotlinx/serialization/internal/LongSerializer"}),
           Shim("tachiyomi", FALSE, "kotlinx/serialization/internal/FloatSerializer",
               "java/lang/Object", <<"kotlinx/serialization/KSerializer">>,
               {"kotlinx/serialization/internal/FloatSerializer"}),
           Shim("tachiyomi", FALSE, "kotlinx/serialization/internal/DoubleSerializer",
               "java/lang/Object", <<"kotlinx/serialization/KSerializer">>,
               {"kotlinx/serialization/internal/DoubleSerializer"}),
           Shim("tachiyomi", FALSE, "kotlinx/serialization/json/internal/StreamingJsonDecoder",
               "java/lang/Object", <<"kotlinx/serialization/json/JsonDecoder",
               "kotlinx/serialization/encoding/CompositeDecoder">>, {}),
           Shim("tachiyomi", FALSE, "kotlinx/serialization/json/internal/StreamingJsonEncoder",
               "java/lang/Object", <<"kotlinx/serialization/encoding/Encoder",
               "kotlinx/serialization/encoding/CompositeEncoder">>, {}),
           Shim("base", TRUE, "uy/kohesive/injekt/api/InjektScope",
               NoParent, <<"uy/kohesive/injekt/api/InjektFactory">>, {}) }

(* vm/class.rs, 2273 to 2420 *)
SHIM_CLASSES_16 ==
         Classes("kotlin", "java/lang/Object",
            {"kotlin/collections/GroupingKt", "kotlin/collections/IndexedValue",
             "kotlin/concurrent/ThreadsKt", "kotlin/coroutines/jvm/internal/DebugProbesKt",
             "kotlin/coroutines/jvm/internal/RestrictedSuspendLambda",
             "kotlin/internal/ProgressionUtilKt", "kotlin/io/ByteStreamsKt",
             "kotlin/io/TextStreamsKt", "kotlin/jdk7/AutoCloseableKt",
             "kotlin/jvm/internal/CollectionToArray",
             "kotlin/jvm/internal/FunctionReferenceImpl",
             "kotlin/jvm/internal/MutablePropertyReference1Impl",
             "kotlin/jvm/internal/PropertyReference0Impl",
             "kotlin/jvm/internal/PropertyReference1Impl",
             "kotlin/jvm/internal/Ref$BooleanRef", "kotlin/jvm/internal/Ref$ByteRef",
             "kotlin/jvm/internal/Ref$CharRef", "kotlin/jvm/internal/Ref$DoubleRef"})
    \cup Interfaces("kotlin", NoParent,
            {"kotlin/jvm/functions/Function3", "kotlin/jvm/functions/Function4"})

(* vm/class.rs, 2421 to 2567 *)
SHIM_CLASSES_17 ==
         Classes("kotlin", "java/lang/Object",
            {"kotlin/jvm/internal/Ref$FloatRef", "kotlin/jvm/internal/Ref$IntRef",
             "kotlin/jvm/internal/Ref$LongRef", "kotlin/jvm/internal/Ref$ObjectRef",
             "kotlin/jvm/internal/Ref$ShortRef", "kotlin/jvm/internal/Reflection",
             "kotlin/jvm/internal/SpreadBuilder", "kotlin/math/MathKt",
             "kotlin/random/Random", "kotlin/random/RandomKt", "kotlin/random/URandomKt",
             "kotlin/ranges/CharRange", "kotlin/ranges/IntProgression",
             "kotlin/ranges/LongRange", "kotlin/reflect/KTypeProjection$Companion"})
    \cup Classes("kotlin", "kotlin/random/Random", {"kotlin/random/Random$Default"})
    \cup Interfaces("kotlin", NoParent,
            {"kotlin/ranges/ClosedRange", "kotlin/reflect/KClass",
             "kotlin/reflect/KProperty", "kotlin/reflect/KType",
             "kotlin/sequences/Sequence"})

(* vm/class.rs, 2568 to 2713 *)
SHIM_CLASSES_18 ==
         Classes("kotlin", "java/lang/Object",
            {"kotlin/sequences/SequenceScope", "kotlin/sequences/SequencesKt",
             "kotlin/text/HexExtensionsKt", "kotlin/text/HexFormat$BytesHexFormat",
             "kotlin/text/HexFormat$Builder",
             "kotlin/text/HexFormat$BytesHexFormat$Builder",
             "kotlin/text/HexFormat$Companion", "kotlin/text/MatchGroup",
             "kotlin/text/MatchResult$Destructured", "kotlin/text/Regex$Companion",
             "kotlin/text/UStringsKt", "kotlin/time/Instant$Companion",
             "kotlin/time/Instant", "kotlin/time/jdk8/InstantConversionsJDK8Kt"})
    \cup Interfaces("kotlin", NoParent, {"kotlin/text/MatchGroupCollection"})
    \cup Classes("android", "java/lang/Object",
            {"android/app/ActivityManager", "android/app/ActivityManager$MemoryInfo",
             "android/content/ComponentName"})
    \cup { Shim("kotlin", FALSE, "kotlin/text/HexFormat",
               "java/lang/Object", <<>>, {"kotlin/text/HexFormat$Companion"}),
           Shim("kotlin", FALSE, "kotlin/time/Clock$System",
               "java/lang/Object", <<>>, {"kotlin/time/Clock$System"}) }

(* vm/class.rs, 2714 to 2858 *)
SHIM_CLASSES_19 ==
         Classes("android", "java/lang/Object",
            {"android/content/res/Resources", "android/graphics/Bitmap",
             "android/graphics/BitmapFactory", "android/graphics/BitmapFactory$Options",
             "android/graphics/Canvas", "android/graphics/ImageDecoder",
             "android/graphics/Paint", "android/graphics/Rect",
             "android/graphics/Typeface", "android/graphics/pdf/PdfRenderer",
             "android/graphics/pdf/PdfRenderer$Page", "android/icu/text/BreakIterator",
             "android/icu/text/Collator", "android/icu/text/Normalizer2"})
    \cup Classes("android", "java/lang/Enum",
            {"android/graphics/Bitmap$CompressFormat", "android/graphics/Bitmap$Config",
             "android/graphics/Paint$Style"})
    \cup Classes("android", "android/icu/text/Collator",
            {"android/icu/text/RuleBasedCollator"})

(* vm/class.rs, 2859 to 3008 *)
SHIM_CLASSES_20 ==
         Classes("android", "java/lang/Object",
            {"android/icu/text/SearchIterator", "android/net/Uri$Builder",
             "android/os/Handler", "android/os/Looper", "android/os/ParcelFileDescriptor",
             "android/text/Html", "android/text/Layout", "android/text/SpannableString",
             "android/text/StaticLayout$Builder", "android/text/method/LinkMovementMethod",
             "android/text/util/Linkify", "android/util/Base64InputStream",
             "android/util/JsonReader", "android/util/LruCache",
             "android/view/View$MeasureSpec", "android/view/View",
             "android/view/ViewGroup$LayoutParams",
             "android/webkit/ConsoleMessage$MessageLevel", "android/webkit/ConsoleMessage",
             "android/webkit/RenderProcessGoneDetail"})
    \cup Classes("android", "android/icu/text/SearchIterator",
            {"android/icu/text/StringSearch"})
    \cup Interfaces("android", NoParent, {"android/text/Editable"})
    \cup Classes("android", "android/text/Layout", {"android/text/StaticLayout"})
    \cup Classes("android", "android/graphics/Paint", {"android/text/TextPaint"})
    \cup Classes("android", "android/view/View", {"android/view/ViewGroup"})

(* vm/class.rs, 3009 to 3155 *)
SHIM_CLASSES_21 ==
         Classes("android", "java/lang/Object",
            {"android/webkit/SslErrorHandler", "android/webkit/URLUtil",
             "android/webkit/WebChromeClient", "android/webkit/WebResourceResponse",
             "android/webkit/WebSettings", "android/webkit/WebView",
             "android/webkit/WebViewClient", "android/widget/Toast"})
    \cup Interfaces("android", NoParent,
            {"android/webkit/WebResourceRequest",
             "androidx/preference/Preference$OnPreferenceChangeListener"})
    \cup Classes("android", "android/widget/TextView", {"android/widget/EditText"})
    \cup Classes("android", "android/view/View", {"android/widget/TextView"})
    \cup Classes("android", "androidx/preference/Preference",
            {"androidx/preference/CheckBoxPreference",
             "androidx/preference/EditTextPreference",
             "androidx/preference/ListPreference",
             "androidx/preference/MultiSelectListPreference"})
    \cup Classes("okhttp", "java/lang/Object",
            {"okhttp3/Cache", "okhttp3/Cookie", "okhttp3/Cookie$Builder",
             "okhttp3/Credentials", "okhttp3/Dispatcher", "okhttp3/Headers$Companion",
             "okhttp3/MultipartBody$Builder"})
    \cup Interfaces("okhttp", NoParent, {"okhttp3/CookieJar", "okhttp3/Dns"})

(* vm/class.rs, 3156 to 3301 *)
SHIM_CLASSES_22 ==
         Classes("okhttp", "java/lang/Object",
            {"okhttp3/ResponseBody$Companion", "okhttp3/internal/_UtilCommonKt",
             "okio/ByteString$Companion", "okio/ForwardingSource", "okio/InflaterSource",
             "okio/CipherSource"})
    \cup Classes("jsoup", "java/lang/Object",
            {"org/jsoup/helper/Validate", "org/jsoup/nodes/Attribute",
             "org/jsoup/nodes/Attributes", "org/jsoup/nodes/Entities",
             "org/jsoup/nodes/Node", "org/jsoup/parser/Parser", "org/jsoup/parser/Tag",
             "org/jsoup/safety/Safelist", "org/jsoup/select/Collector",
             "org/jsoup/select/Evaluator$Class", "org/jsoup/select/Evaluator$Id",
             "org/jsoup/select/Evaluator$Tag", "org/jsoup/select/QueryParser"})
    \cup Classes("jsoup", "org/jsoup/nodes/Node", {"org/jsoup/nodes/TextNode"})
    \cup Classes("tachiyomi", "java/lang/Object",
            {"eu/kanade/tachiyomi/AppInfo", "rx/Single", "tachiyomi/decoder/ImageDecoder"})
    \cup Classes("tachiyomi", "java/lang/Exception",
            {"eu/kanade/tachiyomi/network/HttpException"})

(* vm/class.rs, 3302 to 3448 *)
SHIM_CLASSES_23 ==
         Interfaces("tachiyomi", NoParent,
            {"kotlinx/serialization/BinaryFormat",
             "kotlinx/serialization/json/JsonClassDiscriminator",
             "kotlinx/serialization/json/JsonNames"})
    \cup Classes("tachiyomi", "java/lang/IllegalArgumentException",
            {"kotlinx/serialization/SerializationException"})
    \cup Classes("tachiyomi", "java/lang/Object",
            {"kotlinx/serialization/descriptors/SerialDescriptorsKt",
             "kotlinx/serialization/internal/EnumsKt",
             "kotlinx/serialization/internal/InlineClassDescriptor",
             "kotlinx/serialization/internal/ReferenceArraySerializer",
             "kotlinx/serialization/json/Json$Default",
             "kotlinx/serialization/json/JsonArray$Companion",
             "kotlinx/serialization/json/JsonArrayBuilder",
             "kotlinx/serialization/json/JsonBuilder", "kotlinx/serialization/json/JsonKt"})
    \cup { Shim("tachiyomi", FALSE, "kotlinx/serialization/ContextualSerializer",
               "java/lang/Object", <<"kotlinx/serialization/KSerializer">>, {}),
           Shim("tachiyomi", FALSE, "kotlinx/serialization/PolymorphicSerializer",
               "java/lang/Object", <<"kotlinx/serialization/KSerializer">>, {}),
           Shim("tachiyomi", FALSE, "kotlinx/serialization/internal/EnumSerializer",
               "java/lang/Object", <<"kotlinx/serialization/KSerializer">>, {}),
           Shim("tachiyomi", FALSE, "kotlinx/serialization/SealedClassSerializer",
               "java/lang/Object", <<"kotlinx/serialization/KSerializer">>, {}),
           Shim("tachiyomi", FALSE, "kotlinx/serialization/internal/LinkedHashMapSerializer",
               "java/lang/Object", <<"kotlinx/serialization/KSerializer">>, {}),
           Shim("tachiyomi", FALSE, "kotlinx/serialization/internal/LinkedHashSetSerializer",
               "java/lang/Object", <<"kotlinx/serialization/KSerializer">>, {}),
           Shim("tachiyomi", FALSE, "kotlinx/serialization/internal/ObjectSerializer",
               "java/lang/Object", <<"kotlinx/serialization/KSerializer">>, {}),
           Shim("tachiyomi", FALSE, "kotlinx/serialization/internal/PairSerializer",
               "java/lang/Object", <<"kotlinx/serialization/KSerializer">>, {}) }

(* vm/class.rs, 3449 to 3594 *)
SHIM_CLASSES_24 ==
         Classes("tachiyomi", "java/lang/Object",
            {"kotlinx/serialization/json/JsonObject$Companion",
             "kotlinx/serialization/json/JsonTransformingSerializer",
             "kotlinx/serialization/json/JvmStreamsKt",
             "kotlinx/serialization/modules/PolymorphicModuleBuilder",
             "kotlinx/serialization/modules/SerializersModuleBuilder",
             "kotlinx/serialization/modules/SerializersModule",
             "kotlinx/serialization/modules/SerializersModuleKt",
             "kotlinx/coroutines/CancellableContinuationImpl",
             "kotlinx/coroutines/CompletableDeferredKt", "kotlinx/coroutines/DelayKt",
             "kotlinx/coroutines/MainCoroutineDispatcher",
             "kotlinx/coroutines/SupervisorKt", "kotlinx/coroutines/TimeoutKt"})
    \cup Interfaces("tachiyomi", NoParent,
            {"kotlinx/serialization/protobuf/ProtoNumber",
             "kotlinx/coroutines/CompletableDeferred", "kotlinx/coroutines/CompletableJob",
             "kotlinx/coroutines/sync/Mutex"})
    \cup { Shim("tachiyomi", FALSE, "kotlinx/serialization/protobuf/ProtoBuf",
               "java/lang/Object", <<"kotlinx/serialization/BinaryFormat">>, {}),
           Shim("tachiyomi", FALSE, "kotlinx/serialization/protobuf/ProtoBuf$Companion",
               "java/lang/Object", <<"kotlinx/serialization/BinaryFormat">>, {}),
           Shim("tachiyomi", FALSE, "kotlinx/serialization/protobuf/ProtoDecoder",
               "java/lang/Object", <<"kotlinx/serialization/encoding/Decoder",
               "kotlinx/serialization/encoding/CompositeDecoder">>, {}) }

(* vm/class.rs, 3595 to 3744 *)
SHIM_CLASSES_25 ==
         Classes("tachiyomi", "java/lang/Object", {"kotlinx/coroutines/sync/MutexKt"})
    \cup Classes("base", "java/lang/Object",
            {"java/net/InetAddress", "java/net/URL", "java/net/URLDecoder",
             "java/net/URLEncoder", "java/util/concurrent/CopyOnWriteArrayList",
             "java/util/concurrent/CountDownLatch", "java/util/concurrent/Semaphore",
             "java/time/LocalDateTime", "java/time/OffsetDateTime",
             "java/time/ZonedDateTime", "java/time/format/DateTimeFormatterBuilder",
             "java/util/zip/GZIPInputStream", "java/util/zip/Inflater",
             "java/util/zip/ZipEntry", "java/util/zip/ZipInputStream"})
    \cup Classes("base", "java/io/IOException", {"java/net/UnknownHostException"})
    \cup Interfaces("base", NoParent,
            {"java/time/chrono/ChronoLocalDateTime", "java/time/temporal/TemporalUnit",
             "java/time/temporal/TemporalField"})
    \cup { Shim("base", FALSE, "java/time/temporal/ChronoUnit",
               "java/lang/Object", <<>>, {"java/time/temporal/ChronoUnit"}) }

(* vm/class.rs, 3745 to 3891 *)
SHIM_CLASSES_26 ==
         Classes("base", "java/lang/Object",
            {"java/io/BufferedReader", "java/io/FileOutputStream", "java/nio/Buffer",
             "java/nio/charset/CharsetDecoder", "java/nio/charset/CharsetEncoder",
             "java/util/Base64$Decoder", "java/util/Base64$Encoder", "java/util/Base64",
             "java/util/GregorianCalendar", "java/util/TreeMap", "java/util/UUID",
             "java/math/BigDecimal", "java/math/BigInteger", "java/lang/ref/SoftReference",
             "java/security/KeyFactory", "java/security/KeyPair",
             "java/security/KeyPairGenerator", "java/security/MessageDigestSpi",
             "java/security/spec/PKCS8EncodedKeySpec",
             "java/security/spec/RSAKeyGenParameterSpec",
             "java/security/spec/X509EncodedKeySpec", "java/lang/Runtime"})
    \cup Classes("base", "java/io/IOException",
            {"java/io/EOFException", "java/io/FileNotFoundException"})
    \cup Classes("base", "java/nio/Buffer",
            {"java/nio/ByteBuffer", "java/nio/CharBuffer"})
    \cup Classes("base", "java/lang/RuntimeException",
            {"java/nio/BufferUnderflowException"})
    \cup Classes("base", "java/lang/Exception", {"java/security/DigestException"})
    \cup Classes("base", "java/lang/IllegalArgumentException",
            {"java/security/InvalidParameterException"})
    \cup { Shim("base", FALSE, "java/nio/ByteOrder",
               "java/lang/Object", <<>>, {"java/nio/ByteOrder"}) }

(* vm/class.rs, 3892 to 4036 *)
SHIM_CLASSES_27 ==
         Classes("base", "java/lang/Object",
            {"java/lang/StringBuffer", "java/lang/ThreadLocal", "java/lang/reflect/Array",
             "java/lang/reflect/Method", "java/util/concurrent/atomic/AtomicReference",
             "java/util/concurrent/atomic/AtomicReferenceArray", "java/text/DecimalFormat",
             "java/text/DecimalFormatSymbols", "java/text/Format", "java/text/Normalizer",
             "java/text/StringCharacterIterator", "javax/crypto/CipherInputStream",
             "javax/crypto/Mac", "javax/crypto/SecretKeyFactory",
             "javax/crypto/spec/OAEPParameterSpec", "javax/crypto/spec/PBEKeySpec",
             "org/json/JSONArray", "org/json/JSONObject", "app/cash/quickjs/QuickJs",
             "javax/net/ssl/SSLContext", "javax/net/ssl/SSLSocketFactory"})
    \cup Classes("base", "java/lang/Exception",
            {"javax/crypto/ShortBufferException", "org/json/JSONException"})
    \cup Classes("tachiyomi", "java/lang/Object", {"rx/Subscription"})
    \cup { Shim("base", FALSE, "java/text/Normalizer$Form",
               "java/lang/Object", <<>>, {"java/text/Normalizer$Form"}) }

(* All entries. *)
Entries ==
    SHIM_CLASSES_1 \cup SHIM_CLASSES_2 \cup SHIM_CLASSES_3 \cup SHIM_CLASSES_4 \cup
    SHIM_CLASSES_5 \cup SHIM_CLASSES_6 \cup SHIM_CLASSES_7 \cup SHIM_CLASSES_8 \cup
    SHIM_CLASSES_9 \cup SHIM_CLASSES_10 \cup SHIM_CLASSES_11 \cup SHIM_CLASSES_12 \cup
    SHIM_CLASSES_13 \cup SHIM_CLASSES_14 \cup SHIM_CLASSES_15 \cup SHIM_CLASSES_16 \cup
    SHIM_CLASSES_17 \cup SHIM_CLASSES_18 \cup SHIM_CLASSES_19 \cup SHIM_CLASSES_20 \cup
    SHIM_CLASSES_21 \cup SHIM_CLASSES_22 \cup SHIM_CLASSES_23 \cup SHIM_CLASSES_24 \cup
    SHIM_CLASSES_25 \cup SHIM_CLASSES_26 \cup SHIM_CLASSES_27

=============================================================================
